---- MODULE Spec2Model ----
(***************************************************************************)
(* The LRU cache of the event-seating backend (backend/src/utils/LRUCache): *)
(* a Map from key to node (the index), an intrusive doubly linked recency  *)
(* list (head = most recently used), a TTL checked by get and by a         *)
(* periodic cleanup timer, and hit/miss statistics; and EnhancedLRUCache,  *)
(* the wrapper around the lru-cache package that the server instantiates.  *)
(*                                                                         *)
(* JavaScript runs every method and every timer callback to completion,    *)
(* so each method call and each timer tick is one atomic action; StepSpec  *)
(* runs the sweep statement by statement instead.  Time is the value       *)
(* Date.now() returns; it advances between calls, and during a call in     *)
(* WindowSpec only.                                                        *)
(*                                                                         *)
(* Around the cache: the objects callers store in it (ReferenceSpec), the  *)
(* GET /users/:id handler with its map of pending fetches (RouteSpec), the *)
(* POST /users and DELETE /cache handlers (ServerSpec), and the seat       *)
(* selection store of the frontend (StoreSpec).                            *)
(***************************************************************************)
EXTENDS Integers, Sequences, FiniteSets, TLC

\* ------------------------------------------------------------- bounds
MaxTicks == 2           \* the clock advances at most MaxTicks times
MaxGets == 2            \* at most MaxGets calls of get
MaxSamples == 103       \* at most MaxSamples timed calls of get

\* ------------------------------------------------------------- inputs
Keys == {"A", "B", "C"}
Values == {"v1", "v2"}
\* the keys and values of LRUCache.test.ts: key1..key4, each with its own value
FixtureKeys == {"A", "B", "C", "D"}
FixtureValue(k) == IF k \in {"A", "C"} THEN "v1" ELSE "v2"
AllKeys == Keys \cup FixtureKeys

\* JavaScript's undefined (an unset head/tail/prev/next, a void return) and null
Undefined == "undefined"
Null == "null"

\* ttl = ttlSeconds * 1000
MsPerSecond == 1000
\* responseTimes keeps the last 100 samples
ResponseWindow == 100
\* selectSeat refuses a ninth seat
MaxSelection == 8
\* the granularity of the modelled clock, in milliseconds
TickMs == MsPerSecond

\* the constructor validates neither argument: capacity 0 and a negative TTL are built
Capacities == {0, 1, 2}
TtlSecondsChoices == {-1, 0, 1}

\* the ids GET /users/:id is asked for: one the worker and the fallback both
\* know, one only the worker knows, one nobody knows, and a blank one
UserIds == {"1", "4", "7", " "}
\* the requests in flight at the same time
Requests == {"r1", "r2", "r3"}
\* the seats of the venue: one more than a selection may hold
SeatIds == 1..9

\* a node that no Map entry and no list link refers to (garbage)
FreeNode == [value |-> Undefined, timestamp |-> 0, prev |-> Undefined, next |-> Undefined]

VARIABLES
    capacity,         \* this.capacity
    ttl,              \* this.ttl, milliseconds
    cache,            \* the keys of this.cache (the Map key -> node)
    node,             \* node[k]: the CacheNode the Map holds for key k
    head,             \* this.head: a key, or Undefined
    tail,             \* this.tail: a key, or Undefined
    stats,            \* this.stats: hits, misses, size
    responseTimes,    \* this.responseTimes
    cleanupInterval,  \* TRUE while the setInterval timer is armed
    now,              \* Date.now()
    ret,              \* the value returned by the call this step made
    \* history variables, read by no action's guard or effect on the cache
    touchOrder,       \* the cached keys by last touch (set, or get that hit), newest first
    returnedValue,    \* number of get calls that returned a value
    returnedNull,     \* number of get calls that returned null
    lastSetAt,        \* lastSetAt[k]: the time of the last set of a cached key
    script,           \* the calls made so far, while they follow one of Scenarios
    lifecycle,        \* "running", "destroyed", or "ticked after destroy"
    \* the process around the cache
    sweep,            \* where the timer callback stands inside cleanupExpired
    uncaught,         \* TRUE once an exception has left the timer callback
    enhanced,         \* the EnhancedLRUCache instance of index.ts, when one is built
    recorded,         \* (history) the durations of the get calls since the last clear()
    \* the callers of the cache
    heap,             \* heap[v]: the state of the object a caller passes as value v
    pendingRequests,  \* userRoutes: the Map userId -> promise of the user
    promises,         \* the promises the GET /users/:id handler has created, by number
    requests,         \* the GET /users/:id requests received, each with its place in the handler
    microtasks,       \* the promise reactions queued and not yet run
    posts,            \* the POST /users requests received, each with its place in the handler
    response,         \* the body of the last response of DELETE /cache
    \* the seat selection of the frontend
    selectedSeats,    \* useSeatingStore: state.selectedSeats, seat ids in order of selection
    selectionError    \* useSeatingStore: state.selectionError

routeVars == <<pendingRequests, promises, requests, microtasks>>
storeVars == <<selectedSeats, selectionError>>
serverVars == <<posts, response>>
\* what no method of either cache writes
appVars == <<heap, routeVars, storeVars, serverVars>>

vars == <<capacity, ttl, cache, node, head, tail, stats, responseTimes, recorded,
          cleanupInterval, now, ret, touchOrder, returnedValue, returnedNull,
          lastSetAt, script, lifecycle, sweep, uncaught, enhanced, appVars>>

\* the cache object, as one record
this ==
    [capacity |-> capacity, ttl |-> ttl, cache |-> cache, node |-> node,
     head |-> head, tail |-> tail, stats |-> stats, responseTimes |-> responseTimes]

\* ------------------------------------------------------------- the recency list
\* removeNode without node.next.prev = node.prev
removeNode_keepsBackLink(C, k) ==
    LET n == C.node[k]
        C1 == IF n.prev # Undefined
              THEN [C EXCEPT !.node[n.prev].next = n.next]
              ELSE [C EXCEPT !.head = n.next]
        m == C1.node[k]
    IN  IF m.next # Undefined
        THEN C1
        ELSE [C1 EXCEPT !.tail = m.prev]

removeNode(C, k) ==
    LET n == C.node[k]
        C1 == IF n.prev # Undefined
              THEN [C EXCEPT !.node[n.prev].next = n.next]
              ELSE [C EXCEPT !.head = n.next]
        m == C1.node[k]
    IN  IF m.next # Undefined
        THEN [C1 EXCEPT !.node[m.next].prev = m.prev]
        ELSE [C1 EXCEPT !.tail = m.prev]

addToHead(C, k) ==
    LET C1 == [C EXCEPT !.node[k].prev = Undefined, !.node[k].next = C.head]
        C2 == IF C1.head # Undefined
              THEN [C1 EXCEPT !.node[C1.head].prev = k]
              ELSE C1
        C3 == [C2 EXCEPT !.head = k]
    IN  IF C3.tail = Undefined THEN [C3 EXCEPT !.tail = k] ELSE C3

\* moveToHead that leaves the node where it is
moveToHead_staysInPlace(C, k) == C

moveToHead(C, k) == addToHead(removeNode(C, k), k)

\* cache.delete(key): the Map entry goes, and with it the last reference to the node
mapDelete(C, k) == [C EXCEPT !.cache = @ \ {k}, !.node[k] = FreeNode]

\* removeTail without this.cache.delete(key)
removeTail_keepsMapEntry(C) ==
    IF C.tail # Undefined
    THEN LET key == C.tail
             C1 == removeNode(C, key)
         IN  [C1 EXCEPT !.stats.size = @ - 1]
    ELSE C

\* removeTail unlinking the head instead of the tail
removeTail_evictsHead(C) ==
    IF C.head # Undefined
    THEN LET key == C.head
             C1 == removeNode(C, key)
             C2 == mapDelete(C1, key)
         IN  [C2 EXCEPT !.stats.size = @ - 1]
    ELSE C

\* removeTail without this.stats.size--
removeTail_keepsSize(C) ==
    IF C.tail # Undefined
    THEN LET key == C.tail
             C1 == removeNode(C, key)
         IN  mapDelete(C1, key)
    ELSE C

removeTail(C) ==
    IF C.tail # Undefined
    THEN LET key == C.tail
             C1 == removeNode(C, key)
             C2 == mapDelete(C1, key)
         IN  [C2 EXCEPT !.stats.size = @ - 1]
    ELSE C

\* ------------------------------------------------------------- statistics
\* recordResponseTime that drops the new sample when the window is full
recordResponseTime_keepsOldest(C, time) ==
    LET pushed == Append(C.responseTimes, time)
    IN  [C EXCEPT !.responseTimes =
            IF Len(pushed) > ResponseWindow THEN C.responseTimes ELSE pushed]

\* lines 140-146: push, then shift when more than 100 are held
recordResponseTime(C, time) ==
    LET pushed == Append(C.responseTimes, time)
    IN  [C EXCEPT !.responseTimes =
            IF Len(pushed) > ResponseWindow THEN Tail(pushed) ELSE pushed]

RECURSIVE Sum(_)
Sum(s) == IF s = <<>> THEN 0 ELSE Head(s) + Sum(Tail(s))

\* sum / length and the product by 100 are double-precision operations.  For
\* these <<sum, length>> (all there are with length <= 100 and sum <= 300)
\* the exact product is k + 1/2 and the double is the one just below it
ProductFallsShort ==
    { <<23, 40>>, <<41, 40>>, <<51, 40>>, <<87, 40>>, <<97, 40>>, <<169, 40>>,
      <<179, 40>>, <<189, 40>>, <<199, 40>>,
      <<46, 80>>, <<82, 80>>, <<102, 80>>, <<174, 80>>, <<194, 80>> }

\* Math.round(x) for x = (sum / length) * 100: the integer nearest to x, the
\* upper one when x is half-way
Math_round(sum, n) ==
    IF <<sum, n>> \in ProductFallsShort
    THEN (2 * 100 * sum + n) \div (2 * n) - 1
    ELSE (2 * 100 * sum + n) \div (2 * n)

\* the average cut to two decimals instead of rounded
calculateAverageResponseTime_truncated(C) ==
    IF Len(C.responseTimes) = 0 THEN 0
    ELSE (100 * Sum(C.responseTimes)) \div Len(C.responseTimes)

\* Math.round((sum / length) * 100) / 100, in hundredths of a millisecond
calculateAverageResponseTime(C) ==
    IF Len(C.responseTimes) = 0 THEN 0
    ELSE Math_round(Sum(C.responseTimes), Len(C.responseTimes))

getStats(C) ==
    [hits |-> C.stats.hits, misses |-> C.stats.misses, size |-> C.stats.size,
     averageResponseTime |-> calculateAverageResponseTime(C)]

\* the keys met from head by following next
RECURSIVE Walk(_, _, _)
Walk(C, k, fuel) ==
    IF k = Undefined \/ fuel = 0 THEN <<>>
    ELSE <<k>> \o Walk(C, C.node[k].next, fuel - 1)

ListKeys(C) == Walk(C, C.head, Cardinality(AllKeys) + 1)

\* the keys met from tail by following prev
RECURSIVE WalkBack(_, _, _)
WalkBack(C, k, fuel) ==
    IF k = Undefined \/ fuel = 0 THEN <<>>
    ELSE <<k>> \o WalkBack(C, C.node[k].prev, fuel - 1)

ListKeysBack(C) == WalkBack(C, C.tail, Cardinality(AllKeys) + 1)

\* ------------------------------------------------------------- the methods
\* each returns the cache after the call (this) and the value returned (ret)

\* delete without this.cache.delete(key)
delete_keepsMapEntry(C, key) ==
    IF key \notin C.cache
    THEN [this |-> C, ret |-> "false"]
    ELSE LET C1 == removeNode(C, key)
         IN  [this |-> [C1 EXCEPT !.stats.size = @ - 1], ret |-> "true"]

\* delete that moves the least recently used survivor to the head
delete_promotesTail(C, key) ==
    IF key \notin C.cache
    THEN [this |-> C, ret |-> "false"]
    ELSE LET C1 == removeNode(C, key)
             C2 == mapDelete(C1, key)
             C3 == IF C2.tail # Undefined THEN moveToHead(C2, C2.tail) ELSE C2
         IN  [this |-> [C3 EXCEPT !.stats.size = @ - 1], ret |-> "true"]

delete(C, key) ==
    IF key \notin C.cache
    THEN [this |-> C, ret |-> "false"]
    ELSE LET C1 == removeNode(C, key)
             C2 == mapDelete(C1, key)
         IN  [this |-> [C2 EXCEPT !.stats.size = @ - 1], ret |-> "true"]

\* the absent path without this.stats.misses++
getAbsent_notCounted(C, t, startTime) ==
    [this |-> recordResponseTime(C, t - startTime), ret |-> Null]

\* get, key absent (lines 24-28)
getAbsent(C, t, startTime) ==
    [this |-> recordResponseTime([C EXCEPT !.stats.misses = @ + 1], t - startTime),
     ret |-> Null]

\* the expired path without this.stats.misses++
getExpired_notCounted(C, key, t, startTime) ==
    [this |-> recordResponseTime(delete(C, key).this, t - startTime), ret |-> Null]

\* the expired path without this.delete(key)
getExpired_keepsEntry(C, key, t, startTime) ==
    [this |-> recordResponseTime([C EXCEPT !.stats.misses = @ + 1], t - startTime),
     ret |-> Null]

\* the expired path without this.recordResponseTime(...)
getExpired_notRecorded(C, key, t, startTime) ==
    LET C1 == delete(C, key).this
    IN  [this |-> [C1 EXCEPT !.stats.misses = @ + 1], ret |-> Null]

\* get, entry expired (lines 30-35)
getExpired(C, key, t, startTime) ==
    LET C1 == delete(C, key).this
    IN  [this |-> recordResponseTime([C1 EXCEPT !.stats.misses = @ + 1], t - startTime),
         ret |-> Null]

\* the hit path with node.timestamp = Date.now() added (a sliding TTL)
getHit_refreshesTimestamp(C, key, t, startTime) ==
    LET C1 == moveToHead([C EXCEPT !.node[key].timestamp = t], key)
    IN  [this |-> recordResponseTime([C1 EXCEPT !.stats.hits = @ + 1], t - startTime),
         ret |-> C1.node[key].value]

\* the hit path without this.moveToHead(node)
getHit_noPromotion(C, key, t, startTime) ==
    [this |-> recordResponseTime([C EXCEPT !.stats.hits = @ + 1], t - startTime),
     ret |-> C.node[key].value]

\* the hit path with this.stats.misses++ as well
getHit_countsMissToo(C, key, t, startTime) ==
    LET C1 == moveToHead(C, key)
    IN  [this |-> recordResponseTime([C1 EXCEPT !.stats.hits = @ + 1,
                                                !.stats.misses = @ + 1], t - startTime),
         ret |-> C1.node[key].value]

\* get, entry live (lines 36-40)
getHit(C, key, t, startTime) ==
    LET C1 == moveToHead(C, key)
    IN  [this |-> recordResponseTime([C1 EXCEPT !.stats.hits = @ + 1], t - startTime),
         ret |-> C1.node[key].value]

\* lines 21-41; startTime is what Date.now() returns on entry, t what it
\* returns afterwards
getDuring(C, key, startTime, t) ==
    IF key \notin C.cache THEN getAbsent(C, t, startTime)
    ELSE IF t - C.node[key].timestamp > C.ttl THEN getExpired(C, key, t, startTime)
    ELSE getHit(C, key, t, startTime)

\* a get during which the clock stands still at t
get(C, key, t) == getDuring(C, key, t, t)

\* set that leaves node.timestamp alone when the key is already cached
set_keepsTimestamp(C, key, value, t) ==
    IF key \in C.cache
    THEN moveToHead([C EXCEPT !.node[key].value = value], key)
    ELSE LET C1 == [C EXCEPT !.cache = @ \cup {key},
                             !.node[key] = [value |-> value, timestamp |-> t,
                                            prev |-> Undefined, next |-> Undefined]]
             C2 == addToHead(C1, key)
             C3 == [C2 EXCEPT !.stats.size = @ + 1]
         IN  IF Cardinality(C3.cache) > C3.capacity THEN removeTail(C3) ELSE C3

\* set that records its duration as get does
set_recordsDuration(C, key, value, t) ==
    LET C0 == recordResponseTime(C, 0)
    IN  IF key \in C0.cache
        THEN moveToHead([C0 EXCEPT !.node[key].value = value,
                                   !.node[key].timestamp = t], key)
        ELSE LET C1 == [C0 EXCEPT !.cache = @ \cup {key},
                                  !.node[key] = [value |-> value, timestamp |-> t,
                                                 prev |-> Undefined, next |-> Undefined]]
                 C2 == addToHead(C1, key)
                 C3 == [C2 EXCEPT !.stats.size = @ + 1]
             IN  IF Cardinality(C3.cache) > C3.capacity THEN removeTail(C3) ELSE C3

\* lines 42-65; the method reads the clock once and records no duration
set(C, key, value, t) ==
    IF key \in C.cache
    THEN LET C1 == [C EXCEPT !.node[key].value = value, !.node[key].timestamp = t]
         IN  moveToHead(C1, key)
    ELSE LET C1 == [C EXCEPT !.cache = @ \cup {key},
                             !.node[key] = [value |-> value, timestamp |-> t,
                                            prev |-> Undefined, next |-> Undefined]]
             C2 == addToHead(C1, key)
             C3 == [C2 EXCEPT !.stats.size = @ + 1]
         IN  IF Cardinality(C3.cache) > C3.capacity THEN removeTail(C3) ELSE C3

\* clear that empties the Map and leaves this.head and this.tail as they are
clear_keepsList(C) ==
    [C EXCEPT !.cache = {}, !.stats.size = 0, !.responseTimes = <<>>]

\* clear that also zeroes the hit and miss counters
clear_resetsCounters(C) ==
    [C EXCEPT !.cache = {}, !.node = [k \in AllKeys |-> FreeNode],
              !.head = Undefined, !.tail = Undefined,
              !.stats = [hits |-> 0, misses |-> 0, size |-> 0],
              !.responseTimes = <<>>]

clear(C) ==
    [C EXCEPT !.cache = {}, !.node = [k \in AllKeys |-> FreeNode],
              !.head = Undefined, !.tail = Undefined,
              !.stats.size = 0, !.responseTimes = <<>>]

\* expiredKeys.forEach(key => this.delete(key))
RECURSIVE deleteAll(_, _)
deleteAll(C, keys) ==
    IF keys = {} THEN C
    ELSE LET key == CHOOSE k \in keys : TRUE
         IN  deleteAll(delete(C, key).this, keys \ {key})

\* cleanupExpired that collects the expired keys and deletes none
cleanupExpired_deletesNothing(C, t) == C

\* cleanupExpired with >= where the source has >
cleanupExpired_nonStrict(C, t) ==
    LET expiredKeys == {key \in C.cache : t - C.node[key].timestamp >= C.ttl}
    IN  deleteAll(C, expiredKeys)

\* cleanupExpired that counts every entry it removes as a miss
cleanupExpired_countsMisses(C, t) ==
    LET expiredKeys == {key \in C.cache : t - C.node[key].timestamp > C.ttl}
    IN  [deleteAll(C, expiredKeys) EXCEPT !.stats.misses = @ + Cardinality(expiredKeys)]

cleanupExpired(C, t) ==
    LET expiredKeys == {key \in C.cache : t - C.node[key].timestamp > C.ttl}
    IN  deleteAll(C, expiredKeys)

\* ------------------------------------------------------------- EnhancedLRUCache
\* The wrapper of index.ts around the lru-cache package.  E.cache stands for the
\* package's cache: the keys it holds and their values.  What the package
\* decides by itself (which entry it evicts, when an entry is stale) is an
\* input of the call.

\* this.cache.get(key): undefined for a key the package does not hold or holds stale
Enhanced_packageGet(E, key, stale) ==
    IF key \notin DOMAIN E.cache THEN [this |-> E, ret |-> Undefined]
    ELSE IF stale
         THEN [this |-> [E EXCEPT !.cache = [k \in DOMAIN E.cache \ {key} |-> E.cache[k]]],
               ret |-> Undefined]
         ELSE [this |-> E, ret |-> E.cache[key]]

\* this.cache.set(key, value): the package keeps at most max entries
Enhanced_packageSet(E, key, value, victim) ==
    LET held == [k \in DOMAIN E.cache \cup {key} |-> IF k = key THEN value ELSE E.cache[k]]
    IN  IF Cardinality(DOMAIN held) > E.max
        THEN [E EXCEPT !.cache = [k \in DOMAIN held \ {victim} |-> held[k]]]
        ELSE [E EXCEPT !.cache = held]

Enhanced_recordResponseTime(E, time) ==
    LET pushed == Append(E.responseTimes, time)
    IN  [E EXCEPT !.responseTimes =
            IF Len(pushed) > ResponseWindow THEN Tail(pushed) ELSE pushed]

Enhanced_calculateAverageResponseTime(E) ==
    IF Len(E.responseTimes) = 0 THEN 0
    ELSE Math_round(Sum(E.responseTimes), Len(E.responseTimes))

Enhanced_get(E, key, stale, t) ==
    LET startTime == t
        r == Enhanced_packageGet(E, key, stale)
        E1 == IF r.ret # Undefined
              THEN [r.this EXCEPT !.stats.hits = @ + 1]
              ELSE [r.this EXCEPT !.stats.misses = @ + 1]
    IN  [this |-> Enhanced_recordResponseTime(E1, t - startTime), ret |-> r.ret]

Enhanced_set(E, key, value, victim) == Enhanced_packageSet(E, key, value, victim)

Enhanced_delete(E, key) ==
    [this |-> [E EXCEPT !.cache = [k \in DOMAIN E.cache \ {key} |-> E.cache[k]]],
     ret |-> IF key \in DOMAIN E.cache THEN "true" ELSE "false"]

\* clear that also zeroes the hit and miss counters
Enhanced_clear_resetsCounters(E) ==
    [E EXCEPT !.cache = [k \in {} |-> Undefined], !.responseTimes = <<>>,
              !.stats.hits = 0, !.stats.misses = 0]

Enhanced_clear(E) ==
    [E EXCEPT !.cache = [k \in {} |-> Undefined], !.responseTimes = <<>>]

Enhanced_size(E) == Cardinality(DOMAIN E.cache)

\* updateStats that leaves stats.size as it is
Enhanced_updateStats_keepsSize(E) == E

Enhanced_updateStats(E) == [E EXCEPT !.stats.size = Enhanced_size(E)]

Enhanced_getStats(E) ==
    LET E1 == Enhanced_updateStats(E)
    IN  [this |-> E1,
         ret |-> [hits |-> E1.stats.hits, misses |-> E1.stats.misses,
                  size |-> E1.stats.size,
                  averageResponseTime |-> Enhanced_calculateAverageResponseTime(E1)]]

\* ------------------------------------------------------------- history
RECURSIVE Without(_, _)
Without(s, k) ==
    IF s = <<>> THEN <<>>
    ELSE IF Head(s) = k THEN Without(Tail(s), k)
    ELSE <<Head(s)>> \o Without(Tail(s), k)

RECURSIVE Keep(_, _)
Keep(s, present) ==
    IF s = <<>> THEN <<>>
    ELSE IF Head(s) \in present THEN <<Head(s)>> \o Keep(Tail(s), present)
    ELSE Keep(Tail(s), present)

Touched(k) == <<k>> \o Without(touchOrder, k)

\* call sequences of LRUCache.test.ts and of the documented properties
Scenarios ==
    { << <<"set", "A">>, <<"set", "B">>, <<"set", "C">>, <<"get", "A">>, <<"set", "D">> >>,
      << <<"set", "A">>, <<"set", "B">>, <<"get", "A">>, <<"set", "C">> >>,
      << <<"set", "A">>, <<"tick", "-">>, <<"tick", "-">>, <<"get", "A">> >>,
      << <<"set", "A">>, <<"tick", "-">>, <<"get", "A">>, <<"tick", "-">>, <<"get", "A">> >>,
      << <<"set", "A">>, <<"tick", "-">>, <<"tick", "-">>, <<"cleanup", "-">> >>,
      << <<"set", "A">>, <<"delete", "A">>, <<"delete", "A">> >>,
      << <<"set", "A">>, <<"get", "A">>, <<"get", "B">>, <<"clear", "-">> >>,
      << <<"set", "A">>, <<"set", "B">>, <<"clear", "-">>, <<"get", "A">> >>,
      << <<"set", "A">>, <<"destroy", "-">>, <<"set", "A">>, <<"tick", "-">>, <<"tick", "-">> >>,
      << <<"set", "A">>, <<"tick", "-">>, <<"tick", "-">>, <<"set", "A">>, <<"get", "A">> >>,
      << <<"get", "A">>, <<"set", "A">> >>,
      << <<"set", "A">>, <<"get", "A">>, <<"destroy", "-">>, <<"destroy", "-">> >>,
      << <<"set", "A">>, <<"tick", "-">>, <<"set", "B">>, <<"get", "A">>, <<"set", "C">>,
         <<"tick", "-">>, <<"cleanup", "-">> >>,
      << <<"set", "A">>, <<"set", "B">>, <<"set", "C">>, <<"delete", "B">> >> }

Prefixes == UNION {{SubSeq(s, 1, n) : n \in 0..Len(s)} : s \in Scenarios}
Off == << <<"off", "-">> >>

Follow(op, k) ==
    script' = IF Append(script, <<op, k>>) \in Prefixes
              THEN Append(script, <<op, k>>)
              ELSE Off

\* ------------------------------------------------------------- actions
Commit(C) ==
    /\ cache' = C.cache
    /\ node' = C.node
    /\ head' = C.head
    /\ tail' = C.tail
    /\ stats' = C.stats
    /\ responseTimes' = C.responseTimes
    /\ UNCHANGED <<capacity, ttl>>

\* no set of the key is on record
NoTime == 0 - 1

History(order, gotValue, gotNull, setKey) ==
    /\ touchOrder' = Keep(order, cache')
    /\ returnedValue' = returnedValue + gotValue
    /\ returnedNull' = returnedNull + gotNull
    /\ lastSetAt' = [k \in AllKeys |->
                        IF k \notin cache' THEN NoTime
                        ELSE IF k = setKey THEN now
                        ELSE lastSetAt[k]]

\* the timer callback is not running
SweepIdle == [pc |-> "idle", expiredKeys |-> {}, key |-> Undefined, expect |-> <<>>]

\* no EnhancedLRUCache has been built
NoEnhancedCache ==
    [built |-> FALSE, max |-> 0, cache |-> [k \in {} |-> Undefined],
     stats |-> [hits |-> 0, misses |-> 0, size |-> 0],
     responseTimes |-> <<>>, cleanupInterval |-> FALSE]

\* a request as the server receives it
NewRequest ==
    [pc |-> "new", userId |-> Undefined, userPromise |-> 0, user |-> Undefined,
     status |-> 0, from |-> Undefined, cached |-> FALSE]

\* DELETE /cache has not answered yet
NoResponse == [message |-> "", entriesRemoved |-> 0, currentSize |-> 0]

\* the callers before their first call: the objects as their owners built
\* them, no request received, no seat selected
AppInit ==
    /\ heap = [v \in Values |-> "as built"]
    /\ pendingRequests = [id \in {} |-> 0]
    /\ promises = <<>>
    /\ requests = [r \in {} |-> NewRequest]
    /\ microtasks = <<>>
    /\ posts = [r \in {} |-> Undefined]
    /\ response = NoResponse
    /\ selectedSeats = <<>>
    /\ selectionError = Null

\* new LRUCache(c, ttlSeconds)
Constructed(c, ttlSeconds) ==
    /\ capacity = c
    /\ ttl = ttlSeconds * MsPerSecond
    /\ cache = {}
    /\ node = [k \in AllKeys |-> FreeNode]
    /\ head = Undefined
    /\ tail = Undefined
    /\ stats = [hits |-> 0, misses |-> 0, size |-> 0]
    /\ responseTimes = <<>>
    /\ recorded = <<>>
    /\ cleanupInterval = TRUE
    /\ now = 0
    /\ ret = Undefined
    /\ touchOrder = <<>>
    /\ returnedValue = 0
    /\ returnedNull = 0
    /\ lastSetAt = [k \in AllKeys |-> NoTime]
    /\ script = <<>>
    /\ lifecycle = "running"
    /\ sweep = SweepIdle
    /\ uncaught = FALSE
    /\ enhanced = NoEnhancedCache
    /\ AppInit

Init == \E c \in Capacities, ttlSeconds \in TtlSecondsChoices : Constructed(c, ttlSeconds)

\* beforeEach of LRUCache.test.ts: new LRUCache<string>(3, 1)
FixtureInit == Constructed(3, 1)

Set(k, v) ==
    /\ UNCHANGED recorded
    /\ UNCHANGED <<cleanupInterval, now, lifecycle, sweep, uncaught, enhanced, appVars>>
    /\ ret' = Undefined
    /\ Commit(set(this, k, v, now))
    /\ History(Touched(k), 0, 0, k)
    /\ Follow("set", k)

Get(k) ==
    /\ recorded' = Append(recorded, 0)
    /\ stats.hits + stats.misses < MaxGets
    /\ UNCHANGED <<cleanupInterval, now, lifecycle, sweep, uncaught, enhanced, appVars>>
    /\ LET r == get(this, k, now)
       IN  /\ ret' = r.ret
           /\ Commit(r.this)
           /\ IF r.ret = Null
              THEN History(touchOrder, 0, 1, Undefined)
              ELSE History(Touched(k), 1, 0, Undefined)
    /\ Follow("get", k)

Delete(k) ==
    /\ UNCHANGED recorded
    /\ UNCHANGED <<cleanupInterval, now, lifecycle, sweep, uncaught, enhanced, appVars>>
    /\ LET r == delete(this, k)
       IN  /\ ret' = r.ret
           /\ Commit(r.this)
    /\ History(touchOrder, 0, 0, Undefined)
    /\ Follow("delete", k)

Clear ==
    /\ recorded' = <<>>
    /\ UNCHANGED <<cleanupInterval, now, lifecycle, sweep, uncaught, enhanced, appVars>>
    /\ ret' = Undefined
    /\ Commit(clear(this))
    /\ History(touchOrder, 0, 0, Undefined)
    /\ Follow("clear", "-")

\* the setInterval callback; its period of 30 s is not modelled: while the
\* timer is armed a tick may come at any instant
CleanupTick ==
    /\ UNCHANGED recorded
    /\ cleanupInterval
    /\ UNCHANGED <<cleanupInterval, now, sweep, uncaught, enhanced, appVars>>
    /\ lifecycle' = IF lifecycle = "destroyed" THEN "ticked after destroy" ELSE lifecycle
    /\ ret' = Undefined
    /\ Commit(cleanupExpired(this, now))
    /\ History(touchOrder, 0, 0, Undefined)
    /\ Follow("cleanup", "-")

\* destroy without clearInterval(this.cleanupInterval)
Destroy_keepsTimer ==
    /\ recorded' = <<>>
    /\ UNCHANGED <<cleanupInterval, now, sweep, uncaught, enhanced, appVars>>
    /\ lifecycle' = IF lifecycle = "running" THEN "destroyed" ELSE lifecycle
    /\ ret' = Undefined
    /\ Commit(clear(this))
    /\ History(touchOrder, 0, 0, Undefined)
    /\ Follow("destroy", "-")

\* destroy without this.clear()
Destroy_keepsEntries ==
    /\ UNCHANGED recorded
    /\ cleanupInterval' = FALSE
    /\ UNCHANGED <<now, sweep, uncaught, enhanced, appVars>>
    /\ lifecycle' = IF lifecycle = "running" THEN "destroyed" ELSE lifecycle
    /\ ret' = Undefined
    /\ Commit(this)
    /\ History(touchOrder, 0, 0, Undefined)
    /\ Follow("destroy", "-")

\* clearInterval(this.cleanupInterval); this.clear()
Destroy ==
    /\ recorded' = <<>>
    /\ cleanupInterval' = FALSE
    /\ UNCHANGED <<now, sweep, uncaught, enhanced, appVars>>
    /\ lifecycle' = IF lifecycle = "running" THEN "destroyed" ELSE lifecycle
    /\ ret' = Undefined
    /\ Commit(clear(this))
    /\ History(touchOrder, 0, 0, Undefined)
    /\ Follow("destroy", "-")

\* time passes between two calls
Tick ==
    /\ now < MaxTicks * TickMs
    /\ now' = now + TickMs
    /\ ret' = Undefined
    /\ Follow("tick", "-")
    /\ UNCHANGED <<capacity, ttl, cache, node, head, tail, stats, responseTimes, recorded,
                   cleanupInterval, touchOrder, returnedValue, returnedNull,
                   lastSetAt, lifecycle, sweep, uncaught, enhanced, appVars>>

Next ==
    \/ \E k \in Keys, v \in Values : Set(k, v)
    \/ \E k \in Keys : Get(k)
    \/ \E k \in Keys : Delete(k)
    \/ Clear
    \/ CleanupTick
    \/ Destroy
    \/ Tick

Spec == Init /\ [][Next]_vars

\* the same calls on two keys only
SweepKeys == {"A", "B"}

\* the sweep reads timestamps only: one value is enough to follow it
SweepValues == {"v1"}

SweepNext ==
    \/ \E k \in SweepKeys, v \in SweepValues : Set(k, v)
    \/ \E k \in SweepKeys : Get(k)
    \/ \E k \in SweepKeys : Delete(k)
    \/ Clear
    \/ CleanupTick
    \/ Destroy
    \/ Tick

\* while the interval timer is armed its callback keeps being run, and time passes
FairSpec == Init /\ [][SweepNext]_vars /\ WF_vars(CleanupTick) /\ WF_vars(Tick)

\* the calls LRUCache.test.ts makes on its fixture, in any order
FixtureNext ==
    \/ \E k \in FixtureKeys : Set(k, FixtureValue(k))
    \/ \E k \in FixtureKeys : Get(k)
    \/ Clear
    \/ CleanupTick
    \/ Destroy
    \/ Tick

FixtureSpec == FixtureInit /\ [][FixtureNext]_vars

\* ------------------------------------------------------------- the sweep, statement by statement
\* cleanupExpired is an ordinary method, neither async nor a generator: it
\* contains no await and no yield at which the event loop could run another
\* callback before it returns
SweepSuspends_betweenScanAndDelete == TRUE

SweepSuspends == FALSE

\* the event loop starts a caller's callback only when no callback is on the
\* stack (or the one in progress is suspended), in a process that is alive
CallerMayRun == ~uncaught /\ (sweep.pc = "idle" \/ SweepSuspends)

\* lines 126-132: now = Date.now(); collect the keys whose age exceeds the TTL
SweepScan ==
    /\ cleanupInterval
    /\ ~uncaught
    /\ sweep.pc = "idle"
    /\ sweep' = [pc |-> "delete",
                 expiredKeys |-> {key \in cache : now - node[key].timestamp > ttl},
                 key |-> Undefined,
                 expect |-> <<cleanupExpired(this, now)>>]
    /\ lifecycle' = IF lifecycle = "destroyed" THEN "ticked after destroy" ELSE lifecycle
    /\ ret' = Undefined
    /\ Follow("cleanup", "-")
    /\ UNCHANGED <<capacity, ttl, cache, node, head, tail, stats, responseTimes, recorded,
                   cleanupInterval, now, touchOrder, returnedValue, returnedNull,
                   lastSetAt, uncaught, enhanced, appVars>>

\* this.delete(key), lines 67-70: look the node up and unlink it
SweepDeleteUnlink(k) ==
    /\ UNCHANGED recorded
    /\ ~uncaught
    /\ sweep.pc = "delete"
    /\ k \in sweep.expiredKeys
    /\ IF k \notin cache
       THEN /\ sweep' = [sweep EXCEPT !.expiredKeys = @ \ {k}]
            /\ Commit(this)
       ELSE /\ sweep' = [sweep EXCEPT !.pc = "forget", !.key = k]
            /\ Commit(removeNode(this, k))
    /\ History(touchOrder, 0, 0, Undefined)
    /\ UNCHANGED <<cleanupInterval, now, ret, script, lifecycle, uncaught, enhanced, appVars>>

\* this.delete(key), lines 71-73: drop the Map entry and count it
SweepDeleteForget ==
    /\ UNCHANGED recorded
    /\ ~uncaught
    /\ sweep.pc = "forget"
    /\ sweep' = [sweep EXCEPT !.pc = "delete", !.key = Undefined,
                              !.expiredKeys = @ \ {sweep.key}]
    /\ Commit([mapDelete(this, sweep.key) EXCEPT !.stats.size = @ - 1])
    /\ History(touchOrder, 0, 0, Undefined)
    /\ UNCHANGED <<cleanupInterval, now, ret, script, lifecycle, uncaught, enhanced, appVars>>

\* lines 136-139: the callback returns
SweepReturn ==
    /\ ~uncaught
    /\ sweep.pc = "delete"
    /\ sweep.expiredKeys = {}
    /\ sweep' = SweepIdle
    /\ UNCHANGED <<capacity, ttl, cache, node, head, tail, stats, responseTimes, recorded,
                   cleanupInterval, now, ret, touchOrder, returnedValue, returnedNull,
                   lastSetAt, script, lifecycle, uncaught, enhanced, appVars>>

\* a statement of cleanupExpired throws.  The callback of lines 17-19 has no
\* try/catch: the exception leaves it, and the process has no handler for an
\* uncaught exception (index.ts registers none), so Node ends the process
SweepFault ==
    /\ ~uncaught
    /\ sweep.pc # "idle"
    /\ uncaught' = TRUE
    /\ sweep' = SweepIdle
    /\ UNCHANGED <<capacity, ttl, cache, node, head, tail, stats, responseTimes, recorded,
                   cleanupInterval, now, ret, touchOrder, returnedValue, returnedNull,
                   lastSetAt, script, lifecycle, enhanced, appVars>>

StepNext ==
    \/ \E k \in SweepKeys, v \in Values : CallerMayRun /\ Set(k, v)
    \/ \E k \in SweepKeys : CallerMayRun /\ Get(k)
    \/ \E k \in SweepKeys : CallerMayRun /\ Delete(k)
    \/ CallerMayRun /\ Clear
    \/ CallerMayRun /\ Destroy
    \/ Tick
    \/ SweepScan
    \/ \E k \in SweepKeys : SweepDeleteUnlink(k)
    \/ SweepDeleteForget
    \/ SweepReturn
    \/ SweepFault

StepSpec == Init /\ [][StepNext]_vars

\* ------------------------------------------------------------- the server's cache
\* index.ts builds one EnhancedLRUCache and no LRUCache
lruVars == <<capacity, ttl, cache, node, head, tail, stats, responseTimes, recorded,
             cleanupInterval, touchOrder, returnedValue, returnedNull,
             lastSetAt, script>>

NoLRUCache ==
    /\ capacity = 0
    /\ ttl = 0
    /\ cache = {}
    /\ node = [k \in AllKeys |-> FreeNode]
    /\ head = Undefined
    /\ tail = Undefined
    /\ stats = [hits |-> 0, misses |-> 0, size |-> 0]
    /\ responseTimes = <<>>
    /\ recorded = <<>>
    /\ cleanupInterval = FALSE
    /\ touchOrder = <<>>
    /\ returnedValue = 0
    /\ returnedNull = 0
    /\ lastSetAt = [k \in AllKeys |-> NoTime]
    /\ script = <<>>

\* the capacities the package is given (index.ts gives it 1000)
EnhancedCapacities == {1, 2}

\* new EnhancedLRUCache(c, ttlSeconds)
Enhanced_Constructed(c) ==
    /\ NoLRUCache
    /\ enhanced = [built |-> TRUE, max |-> c, cache |-> [k \in {} |-> Undefined],
                   stats |-> [hits |-> 0, misses |-> 0, size |-> 0],
                   responseTimes |-> <<>>, cleanupInterval |-> TRUE]
    /\ AppInit
    /\ now = 0
    /\ ret = Undefined
    /\ lifecycle = "running"
    /\ sweep = SweepIdle
    /\ uncaught = FALSE

EnhancedSet(k, v) ==
    /\ enhanced.built
    /\ UNCHANGED <<lruVars, now, lifecycle, sweep, uncaught, appVars>>
    /\ ret' = Undefined
    /\ LET over == Cardinality(DOMAIN enhanced.cache \cup {k}) > enhanced.max
           victims == IF over THEN DOMAIN enhanced.cache \ {k} ELSE {Undefined}
       IN  \E victim \in victims : enhanced' = Enhanced_set(enhanced, k, v, victim)

EnhancedGet(k) ==
    /\ enhanced.built
    /\ enhanced.stats.hits + enhanced.stats.misses < MaxGets
    /\ UNCHANGED <<lruVars, now, lifecycle, sweep, uncaught, appVars>>
    /\ \E stale \in BOOLEAN :
            LET r == Enhanced_get(enhanced, k, stale, now)
            IN  /\ ret' = r.ret
                /\ enhanced' = r.this

EnhancedDelete(k) ==
    /\ enhanced.built
    /\ UNCHANGED <<lruVars, now, lifecycle, sweep, uncaught, appVars>>
    /\ LET r == Enhanced_delete(enhanced, k)
       IN  /\ ret' = r.ret
           /\ enhanced' = r.this

EnhancedClear ==
    /\ enhanced.built
    /\ UNCHANGED <<lruVars, now, lifecycle, sweep, uncaught, appVars>>
    /\ ret' = Undefined
    /\ enhanced' = Enhanced_clear(enhanced)

\* getStats() refreshes stats.size before it answers
EnhancedGetStats ==
    /\ enhanced.built
    /\ UNCHANGED <<lruVars, now, lifecycle, sweep, uncaught, appVars>>
    /\ ret' = "stats"
    /\ enhanced' = Enhanced_getStats(enhanced).this

\* a callback that sweeps, as the timer of LRUCache does
EnhancedTimerTick_sweeps ==
    /\ enhanced.built
    /\ enhanced.cleanupInterval
    /\ UNCHANGED <<lruVars, now, sweep, uncaught, appVars>>
    /\ lifecycle' = IF lifecycle = "destroyed" THEN "ticked after destroy" ELSE lifecycle
    /\ ret' = Undefined
    /\ enhanced' = Enhanced_updateStats(Enhanced_clear(enhanced))

\* the setInterval callback of the wrapper: this.updateStats()
EnhancedTimerTick ==
    /\ enhanced.built
    /\ enhanced.cleanupInterval
    /\ UNCHANGED <<lruVars, now, sweep, uncaught, appVars>>
    /\ lifecycle' = IF lifecycle = "destroyed" THEN "ticked after destroy" ELSE lifecycle
    /\ ret' = Undefined
    /\ enhanced' = Enhanced_updateStats(enhanced)

\* destroy of the wrapper without clearInterval(this.cleanupInterval)
EnhancedDestroy_keepsTimer ==
    /\ enhanced.built
    /\ UNCHANGED <<lruVars, now, sweep, uncaught, appVars>>
    /\ lifecycle' = IF lifecycle = "running" THEN "destroyed" ELSE lifecycle
    /\ ret' = Undefined
    /\ enhanced' = Enhanced_clear(enhanced)

\* clearInterval(this.cleanupInterval); this.clear()
EnhancedDestroy ==
    /\ enhanced.built
    /\ UNCHANGED <<lruVars, now, sweep, uncaught, appVars>>
    /\ lifecycle' = IF lifecycle = "running" THEN "destroyed" ELSE lifecycle
    /\ ret' = Undefined
    /\ enhanced' = [Enhanced_clear(enhanced) EXCEPT !.cleanupInterval = FALSE]

EnhancedNext ==
    \/ \E k \in SweepKeys, v \in Values : EnhancedSet(k, v)
    \/ \E k \in SweepKeys : EnhancedGet(k)
    \/ \E k \in SweepKeys : EnhancedDelete(k)
    \/ EnhancedClear
    \/ EnhancedGetStats
    \/ EnhancedTimerTick
    \/ EnhancedDestroy
    \/ Tick

\* the server between two requests for statistics: the routes read and write
\* the cache, the timer ticks, and nobody calls getStats()
TimerNext ==
    \/ \E k \in SweepKeys, v \in Values : EnhancedSet(k, v)
    \/ \E k \in SweepKeys : EnhancedGet(k)
    \/ \E k \in SweepKeys : EnhancedDelete(k)
    \/ EnhancedClear
    \/ EnhancedTimerTick
    \/ Tick

TimerSpec == (\E c \in EnhancedCapacities : Enhanced_Constructed(c)) /\ [][TimerNext]_vars

\* a process holds one cache, of either class
VariantInit ==
    \/ Init
    \/ \E c \in EnhancedCapacities : Enhanced_Constructed(c)

VariantNext ==
    \/ \E k \in SweepKeys, v \in Values : ~enhanced.built /\ Set(k, v)
    \/ \E k \in SweepKeys : ~enhanced.built /\ Get(k)
    \/ \E k \in SweepKeys : ~enhanced.built /\ Delete(k)
    \/ ~enhanced.built /\ Clear
    \/ ~enhanced.built /\ CleanupTick
    \/ ~enhanced.built /\ Destroy
    \/ EnhancedNext

VariantSpec == VariantInit /\ [][VariantNext]_vars

\* the fixture with delete as well: lists of three nodes, removals at the
\* head, in the middle and at the tail
ListNext ==
    \/ FixtureNext
    \/ \E k \in FixtureKeys : Delete(k)

ListSpec == FixtureInit /\ [][ListNext]_vars

\* ------------------------------------------------------------- the latency window
\* The calls of get take time: the i-th call of get since construction takes
\* Duration(i) milliseconds, 1, 2, 0, 1, 2, 0, ...
Duration(i) == i % 3

\* a get of key during which the clock advances
TimedGet(key) ==
    /\ stats.hits + stats.misses < MaxSamples
    /\ LET startTime == now
           t == now + Duration(stats.hits + stats.misses + 1)
           r == getDuring(this, key, startTime, t)
       IN  /\ now' = t
           /\ ret' = r.ret
           /\ Commit(r.this)
           /\ recorded' = Append(recorded, t - startTime)
           /\ IF r.ret = Null
              THEN History(touchOrder, 0, 1, Undefined)
              ELSE History(Touched(key), 1, 0, Undefined)
    /\ Follow("get", key)
    /\ UNCHANGED <<cleanupInterval, lifecycle, sweep, uncaught, enhanced, appVars>>

\* lines 82-87: getStats() assigns nothing
GetStats ==
    /\ ret' = "stats"
    /\ UNCHANGED <<lruVars, now, lifecycle, sweep, uncaught, enhanced, appVars>>

WindowNext ==
    \/ TimedGet("A")
    \/ Clear
    \/ GetStats

WindowSpec == FixtureInit /\ [][WindowNext]_vars

\* ------------------------------------------------------------- the cached objects
\* A value of type V is, for the server, an object (a User).  set stores the
\* reference it is given (node.value = value, lines 46 and 55) and get returns
\* that reference (return node.value, line 40): neither makes a copy.  A value
\* v is therefore a reference, and heap[v] is the state of the object it
\* refers to.

\* the state of the object a get(key) that hits hands to its caller
Yielded(C, H, key, t) ==
    LET r == get(C, key, t)
    IN  IF r.ret = Null THEN Null ELSE H[r.ret]

\* the caller writes a field of an object it passed, or will pass, to set
MutateArgument(v) ==
    /\ heap[v] = "as built"
    /\ heap' = [heap EXCEPT ![v] = "changed"]
    /\ UNCHANGED <<lruVars, now, ret, lifecycle, sweep, uncaught, enhanced,
                   routeVars, storeVars, serverVars>>

\* the caller writes a field of the object the get before returned
MutateReturned ==
    /\ ret \in Values
    /\ heap[ret] = "as built"
    /\ heap' = [heap EXCEPT ![ret] = "changed"]
    /\ UNCHANGED <<lruVars, now, ret, lifecycle, sweep, uncaught, enhanced,
                   routeVars, storeVars, serverVars>>

ReferenceNext ==
    \/ \E k \in SweepKeys, v \in Values : Set(k, v)
    \/ \E k \in SweepKeys : Get(k)
    \/ \E v \in Values : MutateArgument(v)
    \/ MutateReturned
    \/ Tick

ReferenceSpec == Init /\ [][ReferenceNext]_vars

\* ------------------------------------------------------------- GET /users/:id
\* The handler is an async function: it runs as one callback up to
\* "await userPromise" and as a second callback, a promise reaction, after it.
\* A promise created by the handler stands for one database fetch: its
\* executor calls addDBJob(userId, 'fetch') before it first suspends.

\* jobQueue.ts, the worker's mockUsers
mockUsers_worker ==
    ("1" :> "John Doe") @@ ("2" :> "Jane Smith") @@ ("3" :> "Bob Johnson")
        @@ ("4" :> "Alice Brown") @@ ("5" :> "Charlie Wilson")

\* the mockUsers of the fallback of the handler, used when the queue fails
mockUsers_fallback ==
    ("1" :> "John Doe") @@ ("2" :> "Jane Smith") @@ ("3" :> "Bob Johnson")

\* mockUsers.find(u => u.id === userId) || null
find(users, userId) == IF userId \in DOMAIN users THEN users[userId] ELSE Null

\* a lookup that never finds the pending promise
pendingRequests_get_findsNone(userId) == 0

\* pendingRequests.get(userId); 0 stands for undefined
pendingRequests_get(userId) ==
    IF userId \in DOMAIN pendingRequests THEN pendingRequests[userId] ELSE 0

\* a test that takes null for a user
isUser_evenNull(user) == TRUE

\* the negation of "if (!user)"
isUser(user) == user # Null

\* a callback of the handler is on the stack
Running == \E r \in DOMAIN requests : requests[r].pc \in {"store", "respond"}

\* the event loop takes the next request or job result only when the stack
\* and the microtask queue are empty, in a process that is alive
LoopIdle == ~Running /\ microtasks = <<>> /\ ~uncaught

routeIdle == <<lruVars, now, ret, lifecycle, sweep, heap, storeVars, serverVars>>

\* the requests with request r among them
Received(r, request) ==
    [x \in DOMAIN requests \cup {r} |-> IF x = r THEN request ELSE requests[x]]

\* lines 15-74: validation, cache lookup, the pending promise found or created
GetUserStart(r, userId) ==
    /\ LoopIdle
    /\ r \notin DOMAIN requests
    /\ UNCHANGED <<routeIdle, uncaught, microtasks>>
    /\ IF userId = " "
       THEN /\ requests' = Received(r,
                    [NewRequest EXCEPT !.pc = "done", !.userId = userId, !.status = 400])
            /\ UNCHANGED <<enhanced, pendingRequests, promises>>
       ELSE \E stale \in BOOLEAN :
              LET got == Enhanced_get(enhanced, userId, stale, now)
                  cachedUser == got.ret
                  userPromise == pendingRequests_get(userId)
                  created == Len(promises) + 1
              IN  /\ enhanced' = got.this
                  /\ IF cachedUser # Undefined
                     THEN /\ requests' = Received(r,
                                 [NewRequest EXCEPT !.pc = "done", !.userId = userId,
                                                    !.user = cachedUser, !.status = 200,
                                                    !.from = "cache"])
                          /\ UNCHANGED <<pendingRequests, promises>>
                     ELSE IF userPromise = 0
                     THEN /\ promises' = Append(promises,
                                 [userId |-> userId, state |-> "pending", value |-> Undefined,
                                  reactions |-> << <<"finally", userId>>, <<"await", r>> >>])
                          /\ pendingRequests' =
                                 [id \in DOMAIN pendingRequests \cup {userId} |->
                                     IF id = userId THEN created ELSE pendingRequests[id]]
                          /\ requests' = Received(r,
                                 [NewRequest EXCEPT !.pc = "awaiting", !.userId = userId,
                                                    !.userPromise = created])
                     ELSE /\ promises' = [promises EXCEPT ![userPromise].reactions =
                                             Append(@, <<"await", r>>)]
                          /\ UNCHANGED pendingRequests
                          /\ requests' = Received(r,
                                 [NewRequest EXCEPT !.pc = "awaiting", !.userId = userId,
                                                    !.userPromise = userPromise])

\* lines 36-62: the job finishes, or the queue fails and the fallback looks
\* the user up; either way the promise is resolved, with the user or null,
\* and its reactions are queued in the order they were registered
FetchResolves(p) ==
    /\ LoopIdle
    /\ promises[p].state = "pending"
    /\ \E users \in {mockUsers_worker, mockUsers_fallback} :
          promises' = [promises EXCEPT ![p].state = "resolved",
                                       ![p].value = find(users, promises[p].userId),
                                       ![p].reactions = <<>>]
    /\ microtasks' = promises[p].reactions
    /\ UNCHANGED <<routeIdle, uncaught, enhanced, pendingRequests, requests>>

\* lines 59-61: the fallback throws and the executor rejects the promise.  Its
\* reactions are queued in the order they were registered; the promise that
\* finally() returned rejects with it, and nothing handles that one
FetchRejects(p) ==
    /\ LoopIdle
    /\ promises[p].state = "pending"
    /\ promises' = [promises EXCEPT ![p].state = "rejected", ![p].reactions = <<>>]
    /\ microtasks' = Append(promises[p].reactions, <<"unhandled", p>>)
    /\ UNCHANGED <<routeIdle, uncaught, enhanced, pendingRequests, requests>>

\* the microtask queue has drained: Node reports the unhandled rejection.
\* index.ts registers no handler for it; whether the report is a warning or
\* the end of the process depends on the version of Node and its flags
UnhandledRejection ==
    /\ ~Running
    /\ microtasks # <<>>
    /\ Head(microtasks)[1] = "unhandled"
    /\ microtasks' = Tail(microtasks)
    /\ \E ends \in BOOLEAN : uncaught' = ends
    /\ UNCHANGED <<routeIdle, enhanced, promises, pendingRequests, requests>>

\* a finally callback that leaves the entry in the Map
PendingCleanup_keepsEntry ==
    /\ ~Running
    /\ microtasks # <<>>
    /\ Head(microtasks)[1] = "finally"
    /\ microtasks' = Tail(microtasks)
    /\ UNCHANGED <<routeIdle, uncaught, enhanced, promises, pendingRequests, requests>>

\* lines 67-69: userPromise.finally(() => pendingRequests.delete(userId))
PendingCleanup ==
    /\ ~Running
    /\ microtasks # <<>>
    /\ Head(microtasks)[1] = "finally"
    /\ microtasks' = Tail(microtasks)
    /\ pendingRequests' = [id \in DOMAIN pendingRequests \ {Head(microtasks)[2]} |->
                              pendingRequests[id]]
    /\ UNCHANGED <<routeIdle, uncaught, enhanced, promises, requests>>

\* lines 74-78: the handler resumes with the user; no user, 404.  Lines
\* 85-92: the await of a rejected promise throws, and next(error) answers 500
GetUserResume(r) ==
    /\ ~Running
    /\ microtasks # <<>>
    /\ Head(microtasks) = <<"await", r>>
    /\ r \in DOMAIN requests
    /\ microtasks' = Tail(microtasks)
    /\ LET user == promises[requests[r].userPromise].value
       IN  requests' = [requests EXCEPT ![r] =
               IF promises[requests[r].userPromise].state = "rejected"
               THEN [@ EXCEPT !.pc = "done", !.from = "error", !.status = 500]
               ELSE IF isUser(user)
               THEN [@ EXCEPT !.pc = "store", !.user = user, !.from = "fetch"]
               ELSE [@ EXCEPT !.pc = "done", !.user = user, !.from = "fetch",
                              !.status = 404]]
    /\ UNCHANGED <<routeIdle, uncaught, enhanced, promises, pendingRequests>>

\* line 81: cache.set(userId, user)
GetUserStore(r) ==
    /\ r \in DOMAIN requests
    /\ requests[r].pc = "store"
    /\ LET userId == requests[r].userId
           over == Cardinality(DOMAIN enhanced.cache \cup {userId}) > enhanced.max
           victims == IF over THEN DOMAIN enhanced.cache \ {userId} ELSE {Undefined}
       IN  \E victim \in victims :
              enhanced' = Enhanced_set(enhanced, userId, requests[r].user, victim)
    /\ requests' = [requests EXCEPT ![r] = [@ EXCEPT !.pc = "respond", !.cached = TRUE]]
    /\ UNCHANGED <<routeIdle, uncaught, promises, pendingRequests, microtasks>>

\* line 84: res.json(user)
GetUserRespond(r) ==
    /\ r \in DOMAIN requests
    /\ requests[r].pc = "respond"
    /\ requests' = [requests EXCEPT ![r] = [@ EXCEPT !.pc = "done", !.status = 200]]
    /\ UNCHANGED <<routeIdle, uncaught, enhanced, promises, pendingRequests, microtasks>>

RouteInit == \E c \in EnhancedCapacities : Enhanced_Constructed(c)

RouteNext ==
    \/ \E r \in Requests, userId \in UserIds : GetUserStart(r, userId)
    \/ \E p \in 1..Len(promises) : FetchResolves(p)
    \/ \E p \in 1..Len(promises) : FetchRejects(p)
    \/ PendingCleanup
    \/ UnhandledRejection
    \/ \E r \in Requests : GetUserResume(r)
    \/ \E r \in Requests : GetUserStore(r)
    \/ \E r \in Requests : GetUserRespond(r)

RouteSpec == RouteInit /\ [][RouteNext]_vars

\* ------------------------------------------------------------- POST /users and DELETE /cache
\* Strings the handlers transform are sequences of characters.  An id of the
\* request body is a number or a string; text is what toString() gives.
Whitespace == {" "}

LowerCase == ("A" :> "a") @@ ("B" :> "b") @@ ("C" :> "c")

\* String.prototype.toLowerCase
toLowerCase(str) ==
    [i \in 1..Len(str) |-> IF str[i] \in DOMAIN LowerCase THEN LowerCase[str[i]] ELSE str[i]]

\* String.prototype.trim
RECURSIVE trimStart(_)
trimStart(str) ==
    IF str # <<>> /\ Head(str) \in Whitespace THEN trimStart(Tail(str)) ELSE str

RECURSIVE trimEnd(_)
trimEnd(str) ==
    IF str # <<>> /\ str[Len(str)] \in Whitespace
    THEN trimEnd(SubSeq(str, 1, Len(str) - 1))
    ELSE str

trim(str) == trimEnd(trimStart(str))

\* /^[^\s@]+@[^\s@]+\.[^\s@]+$/.test(email)
emailRegex_test(email) ==
    LET plain(from, to) ==
            /\ from <= to
            /\ \A i \in from..to : email[i] \notin Whitespace \cup {"@"}
    IN  \E at, dot \in 1..Len(email) :
            /\ email[at] = "@"
            /\ email[dot] = "."
            /\ plain(1, at - 1)
            /\ plain(at + 1, dot - 1)
            /\ plain(dot + 1, Len(email))

\* !x of a field of the body: undefined, the empty string, or the number 0
isMissing(body, field) ==
    \/ field \notin DOMAIN body
    \/ IF field = "id"
       THEN body.id.text = "" \/ (body.id.type = "number" /\ body.id.text = "0")
       ELSE body[field] = <<>>

\* the bodies POST /users is sent
Bodies ==
    { [id |-> [type |-> "string", text |-> "7"],
       name |-> <<" ", "A", "n", "n", " ">>,
       email |-> <<"A", "n", "n", "@", "b", ".", "c">>],
      [id |-> [type |-> "number", text |-> "8"],
       name |-> <<"B", "o">>,
       email |-> <<"b", "o", "@", "b", ".", "c">>],
      [name |-> <<"B", "o">>,
       email |-> <<"b", "o", "@", "b", ".", "c">>],
      [id |-> [type |-> "number", text |-> "0"],
       name |-> <<"B", "o">>,
       email |-> <<"b", "o", "@", "b", ".", "c">>],
      [id |-> [type |-> "string", text |-> "7"],
       name |-> <<"A", "n", "n">>,
       email |-> <<"A", "n", "n", "@", "b", " ", ".", "c">>] }

\* the POST /users requests in flight at the same time
PostRequests == {"p1", "p2"}

NoUser == [id |-> "", name |-> <<>>, email |-> <<>>, createdAt |-> 0]

\* lines 110-115
newUserOf(body, t) ==
    [id |-> body.id.text,
     name |-> trim(body.name),
     email |-> trim(toLowerCase(body.email)),
     createdAt |-> t]

serverIdle == <<lruVars, now, ret, lifecycle, sweep, uncaught, heap, routeVars, storeVars>>

\* the posts with request r among them
Posted(r, post) ==
    [x \in DOMAIN posts \cup {r} |-> IF x = r THEN post ELSE posts[x]]

\* lines 97-120: validation, newUser, and the call of addDBJob, which suspends
\* the handler at dbQueue.add (jobQueue.ts 134)
PostStart(r, body) ==
    /\ ~uncaught
    /\ r \notin DOMAIN posts
    /\ posts' = Posted(r,
          IF isMissing(body, "id") \/ isMissing(body, "name") \/ isMissing(body, "email")
          THEN [pc |-> "done", newUser |-> NoUser, job |-> "none", status |-> 400,
                cached |-> FALSE]
          ELSE IF ~emailRegex_test(body.email)
          THEN [pc |-> "done", newUser |-> NoUser, job |-> "none", status |-> 400,
                cached |-> FALSE]
          ELSE [pc |-> "queuing", newUser |-> newUserOf(body, now), job |-> "none",
                status |-> 0, cached |-> FALSE])
    /\ UNCHANGED <<serverIdle, enhanced, response>>

\* the job is queued and the handler caches the user without waiting for it
PostQueued_cachesAtOnce(r) ==
    /\ r \in DOMAIN posts
    /\ posts[r].pc = "queuing"
    /\ posts' = [posts EXCEPT ![r] = [@ EXCEPT !.pc = "waiting", !.job = "queued",
                                               !.cached = TRUE]]
    /\ LET key == posts[r].newUser.id
           over == Cardinality(DOMAIN enhanced.cache \cup {key}) > enhanced.max
           victims == IF over THEN DOMAIN enhanced.cache \ {key} ELSE {Undefined}
       IN  \E victim \in victims :
              enhanced' = Enhanced_set(enhanced, key, posts[r].newUser, victim)
    /\ UNCHANGED <<serverIdle, response>>

\* lines 120-121: dbQueue.add resolved; the handler has its job and suspends
\* at job.waitUntilFinished
PostQueued(r) ==
    /\ r \in DOMAIN posts
    /\ posts[r].pc = "queuing"
    /\ posts' = [posts EXCEPT ![r] = [@ EXCEPT !.pc = "waiting", !.job = "queued"]]
    /\ UNCHANGED <<serverIdle, enhanced, response>>

\* line 120 throws (dbQueue.add rejected: no Redis); lines 128-134 answer
\* through next(error)
PostQueueFails(r) ==
    /\ r \in DOMAIN posts
    /\ posts[r].pc = "queuing"
    /\ posts' = [posts EXCEPT ![r] = [@ EXCEPT !.pc = "done", !.status = 500]]
    /\ UNCHANGED <<serverIdle, enhanced, response>>

\* jobQueue.ts 88-98: the worker has run the create job
WorkerCompletes(r) ==
    /\ r \in DOMAIN posts
    /\ posts[r].job = "queued"
    /\ posts' = [posts EXCEPT ![r] = [@ EXCEPT !.job = "completed"]]
    /\ UNCHANGED <<serverIdle, enhanced, response>>

\* the job failed for good (jobQueue.ts 117-123, after its attempts)
WorkerFails(r) ==
    /\ r \in DOMAIN posts
    /\ posts[r].job = "queued"
    /\ posts' = [posts EXCEPT ![r] = [@ EXCEPT !.job = "failed"]]
    /\ UNCHANGED <<serverIdle, enhanced, response>>

\* lines 121-127: waitUntilFinished resolved; cache.set, then 201
PostResume(r) ==
    /\ r \in DOMAIN posts
    /\ posts[r].pc = "waiting"
    /\ posts[r].job = "completed"
    /\ posts' = [posts EXCEPT ![r] = [@ EXCEPT !.pc = "done", !.status = 201,
                                               !.cached = TRUE]]
    /\ LET key == posts[r].newUser.id
           over == Cardinality(DOMAIN enhanced.cache \cup {key}) > enhanced.max
           victims == IF over THEN DOMAIN enhanced.cache \ {key} ELSE {Undefined}
       IN  \E victim \in victims :
              enhanced' = Enhanced_set(enhanced, key, posts[r].newUser, victim)
    /\ UNCHANGED <<serverIdle, response>>

\* line 121 throws: the job failed, or waitUntilFinished itself rejected
\* while the job is still queued; lines 128-134 answer through next(error)
PostWaitFails(r) ==
    /\ r \in DOMAIN posts
    /\ posts[r].pc = "waiting"
    /\ posts[r].job \in {"queued", "failed"}
    /\ posts' = [posts EXCEPT ![r] = [@ EXCEPT !.pc = "done", !.status = 500]]
    /\ UNCHANGED <<serverIdle, enhanced, response>>

\* cacheRoutes.ts 10-23: the handler of DELETE /cache, on the cache E
deleteCache(E) ==
    LET statsBefore == Enhanced_getStats(E)
        cleared == Enhanced_clear(statsBefore.this)
        statsAfter == Enhanced_getStats(cleared)
    IN  [this |-> statsAfter.this,
         ret |-> [message |-> "Cache cleared successfully",
                  entriesRemoved |-> statsBefore.ret.size,
                  currentSize |-> statsAfter.ret.size]]

DeleteCache ==
    /\ ~uncaught
    /\ enhanced' = deleteCache(enhanced).this
    /\ response' = deleteCache(enhanced).ret
    /\ UNCHANGED <<serverIdle, posts>>

ServerNext ==
    \/ \E r \in PostRequests, body \in Bodies : PostStart(r, body)
    \/ \E r \in PostRequests : PostQueued(r)
    \/ \E r \in PostRequests : PostQueueFails(r)
    \/ \E r \in PostRequests : WorkerCompletes(r)
    \/ \E r \in PostRequests : WorkerFails(r)
    \/ \E r \in PostRequests : PostResume(r)
    \/ \E r \in PostRequests : PostWaitFails(r)
    \/ DeleteCache
    \/ EnhancedTimerTick
    \/ Tick

ServerSpec == RouteInit /\ [][ServerNext]_vars

\* ------------------------------------------------------------- the seat selection
\* useSeatingStore of SeatingMap.tsx.  A seat is known by its id.  Each
\* operation takes the store's state S and returns the state it sets.
store == [selectedSeats |-> selectedSeats, selectionError |-> selectionError]

SelectionLimitReached == "Maximum 8 seats can be selected"

\* selectedSeats.some(s => s.id === seat.id)
isSelected(S, seat) == \E i \in 1..Len(S.selectedSeats) : S.selectedSeats[i] = seat

\* selectSeat without the test of the selection limit
selectSeat_unlimited(S, seat) ==
    IF isSelected(S, seat) THEN S
    ELSE [selectedSeats |-> Append(S.selectedSeats, seat), selectionError |-> Null]

selectSeat(S, seat) ==
    IF isSelected(S, seat) THEN S
    ELSE IF Len(S.selectedSeats) >= MaxSelection
    THEN [S EXCEPT !.selectionError = SelectionLimitReached]
    ELSE [selectedSeats |-> Append(S.selectedSeats, seat), selectionError |-> Null]

\* selectedSeats.filter(seat => seat.id !== seatId)
RECURSIVE filterOut(_, _)
filterOut(seats, seatId) ==
    IF seats = <<>> THEN <<>>
    ELSE IF Head(seats) = seatId THEN filterOut(Tail(seats), seatId)
    ELSE <<Head(seats)>> \o filterOut(Tail(seats), seatId)

deselectSeat(S, seatId) ==
    [selectedSeats |-> filterOut(S.selectedSeats, seatId), selectionError |-> Null]

clearSelection(S) == [selectedSeats |-> <<>>, selectionError |-> Null]

clearSelectionError(S) == [S EXCEPT !.selectionError = Null]

\* set(...) of the store
SetStore(S) ==
    /\ selectedSeats' = S.selectedSeats
    /\ selectionError' = S.selectionError
    /\ UNCHANGED <<lruVars, now, ret, lifecycle, sweep, uncaught, enhanced, heap,
                   routeVars, serverVars>>

SelectSeat(seat) == SetStore(selectSeat(store, seat))

DeselectSeat(seatId) == SetStore(deselectSeat(store, seatId))

ClearSelection == SetStore(clearSelection(store))

ClearSelectionError == SetStore(clearSelectionError(store))

\* No operation of the store looks at the order of the selection.  The seats
\* are picked in the order of their ids: a click goes to a seat that is
\* selected already or to one after all the selected seats.
InSeatOrder(seat) ==
    \/ isSelected(store, seat)
    \/ \A i \in 1..Len(selectedSeats) : selectedSeats[i] < seat

StoreNext ==
    \/ \E seat \in SeatIds : InSeatOrder(seat) /\ SelectSeat(seat)
    \/ \E seatId \in SeatIds : DeselectSeat(seatId)
    \/ ClearSelection
    \/ ClearSelectionError

StoreSpec == Constructed(0, 0) /\ [][StoreNext]_vars

\* ------------------------------------------------------------- claims

\* C1: with capacity >= 1, after any sequence of set, get, delete, clear and
\* cleanup ticks the cache never holds more than capacity entries.
C1_CapacityNeverExceeded ==
    capacity >= 1 => Cardinality(cache) <= capacity /\ stats.size <= capacity

\* a third key was set into a full cache of capacity 2
C1_Witness ==
    /\ capacity = 2
    /\ script = << <<"set", "A">>, <<"set", "B">>, <<"set", "C">> >>
    /\ Cardinality(cache) = 2

\* C2: set(K, V) of an absent key into a full cache (capacity >= 1) removes
\* exactly one entry, the one whose last set or successful get is the oldest,
\* and K is present afterwards.
C2_EvictsLeastRecentlyUsed ==
    [][\A k \in AllKeys, v \in Values :
        (k \notin cache /\ capacity >= 1 /\ Cardinality(cache) = capacity /\ Set(k, v))
            => /\ Len(touchOrder) = capacity
               /\ cache \ cache' = {touchOrder[Len(touchOrder)]}
               /\ cache' \ cache = {k}
               /\ k \in cache'
               /\ stats'.size = stats.size]_vars

\* set A, set B, get A, set C with capacity 2: B was the least recently used
C2_Witness ==
    /\ capacity = 2
    /\ script = << <<"set", "A">>, <<"set", "B">>, <<"get", "A">>, <<"set", "C">> >>
    /\ stats.hits = 1
    /\ cache = {"A", "C"}

\* C3: a get(K) that hits makes K the most recently used entry, so with
\* capacity >= 2 the next capacity eviction does not take K; with capacity 3,
\* after set A, set B, set C, get(A), set(D): A, C and D are present, B is not.
C3_HitIsNotNextVictim ==
    [][/\ \A k \in AllKeys :
            (k \in cache /\ Get(k) /\ ret' # Null)
                => /\ head' = k
                   /\ capacity >= 2 =>
                        \A k2 \in AllKeys \ cache', v \in Values :
                            k \in set(this', k2, v, now').cache
       /\ (script' = << <<"set", "A">>, <<"set", "B">>, <<"set", "C">>,
                        <<"get", "A">>, <<"set", "D">> >> /\ capacity = 3 /\ stats'.hits = 1)
            => cache' = {"A", "C", "D"}]_vars

C3_Witness ==
    /\ capacity = 3
    /\ script = << <<"set", "A">>, <<"set", "B">>, <<"set", "C">>,
                   <<"get", "A">>, <<"set", "D">> >>
    /\ stats.hits = 1
    /\ "A" \in cache /\ "C" \in cache /\ "D" \in cache /\ "B" \notin cache

\* no list link and no end of the list refers to key k
Unlinked(C, k) ==
    /\ C.head # k
    /\ C.tail # k
    /\ \A j \in AllKeys : C.node[j].prev # k /\ C.node[j].next # k

\* C4: get(K) on an entry whose age is greater than the TTL returns null,
\* removes K from the index and from the recency list and counts one miss,
\* with or without a sweep and whether or not capacity was ever reached.
C4_ExpiredGetIsMiss ==
    [][\A k \in AllKeys :
        (k \in cache /\ now - node[k].timestamp > ttl /\ Get(k))
            => /\ ret' = Null
               /\ k \notin cache'
               /\ cache' = cache \ {k}
               /\ Unlinked(this', k)
               /\ stats'.misses = stats.misses + 1
               /\ stats'.hits = stats.hits
               /\ stats'.size = stats.size - 1]_vars

\* set A, two seconds pass with a TTL of one, get A: no sweep, capacity not reached
C4_Witness ==
    /\ capacity = 2
    /\ ttl = 1000
    /\ script = << <<"set", "A">>, <<"tick", "-">>, <<"tick", "-">>, <<"get", "A">> >>
    /\ ret = Null
    /\ stats.misses = 1
    /\ cache = {}

\* the last instant of the modelled clock
Horizon == MaxTicks * TickMs

\* C5: while the cache is not destroyed and sweep ticks keep occurring, an
\* entry that is not set again is eventually removed without any get on it:
\* again and again the armed cache holds no entry set more than a TTL before
\* the last instant of the clock (so each such entry is in the end removed,
\* set again, or the cache destroyed), and a sweep tick leaves no entry whose
\* age exceeds the TTL, in the index, in the list or in the size.
C5_SweepRemovesStale ==
    /\ []<>(cleanupInterval =>
                \A k \in cache : node[k].timestamp + ttl >= Horizon)
    /\ [][CleanupTick =>
            /\ cache' = {k \in cache : now - node[k].timestamp <= ttl}
            /\ \A k \in cache \ cache' : Unlinked(this', k)
            /\ Len(ListKeys(this')) = Cardinality(cache')
            /\ \A i \in 1..Len(ListKeys(this')) : ListKeys(this')[i] \in cache'
            /\ stats'.size = Cardinality(cache')]_vars

\* set A, two seconds pass with a TTL of one, a sweep tick, and no get at all
C5_Witness ==
    /\ ttl = 1000
    /\ cleanupInterval
    /\ script = << <<"set", "A">>, <<"tick", "-">>, <<"tick", "-">>, <<"cleanup", "-">> >>
    /\ stats.hits + stats.misses = 0
    /\ cache = {}
    /\ head = Undefined /\ tail = Undefined
    /\ stats.size = 0

\* C6: with capacity >= 1, set(K, V) immediately followed by get(K), no other
\* call and no time in between, returns exactly V and counts as a hit.
C6_RoundTrip ==
    [][\A k \in AllKeys, v \in Values :
        (capacity >= 1 /\ Set(k, v))
            => /\ get(this', k, now').ret = v
               /\ get(this', k, now').this.stats.hits = stats'.hits + 1
               /\ get(this', k, now').this.stats.misses = stats'.misses]_vars

\* the round trip of C6 for the caches built with a TTL that is not negative
RoundTripWithValidTtl ==
    [][\A k \in AllKeys, v \in Values :
        (capacity >= 1 /\ ttl >= 0 /\ Set(k, v))
            => /\ get(this', k, now').ret = v
               /\ get(this', k, now').this.stats.hits = stats'.hits + 1
               /\ get(this', k, now').this.stats.misses = stats'.misses]_vars

\* C7, as claimed: a get(K) that hits refreshes the entry's timestamp, so an
\* entry read successfully at time t is not expired before t + TTL.
C7_HitRefreshesTimestamp ==
    [][\A k \in AllKeys :
        (k \in cache /\ Get(k) /\ ret' # Null) => node'[k].timestamp = now]_vars

\* C7, amended: a get(K) that hits leaves the timestamp as it is; the age is
\* counted from the last set alone: get and the sweep expire an entry exactly
\* when now - (time of its last set) > TTL, whatever gets hit it in between.
C7_AgeCountsFromLastSet ==
    [][/\ \A k \in AllKeys :
            (k \in cache /\ Get(k) /\ ret' # Null)
                => node'[k].timestamp = node[k].timestamp
       /\ \A k \in cache' : node'[k].timestamp = lastSetAt'[k]
       /\ \A k \in cache :
            /\ (Get(k) \/ CleanupTick)
                    => (k \notin cache' <=> now - lastSetAt[k] > ttl)
            /\ (k \notin cache' /\ \E k2 \in AllKeys : Get(k2))
                    => now - lastSetAt[k] > ttl]_vars

\* TTL one second: set A at 0, a get that hits at 1000, a get at 2000 that
\* finds A expired although it was read only 1000 ms earlier
C7_Witness ==
    /\ ttl = 1000
    /\ script = << <<"set", "A">>, <<"tick", "-">>, <<"get", "A">>,
                   <<"tick", "-">>, <<"get", "A">> >>
    /\ stats.hits = 1
    /\ stats.misses = 1
    /\ ret = Null
    /\ "A" \notin cache

\* C8: get(K) for a key that is not cached returns null, adds exactly one
\* miss and no hit, and leaves the entries, their values and their order alone.
C8_AbsentGetIsMiss ==
    [][\A k \in AllKeys :
        (k \notin cache /\ Get(k))
            => /\ ret' = Null
               /\ stats'.misses = stats.misses + 1
               /\ stats'.hits = stats.hits
               /\ stats'.size = stats.size
               /\ cache' = cache
               /\ node' = node
               /\ head' = head
               /\ tail' = tail]_vars

\* set A (value v1), get A, then get B, which was never set
C8_Witness ==
    /\ script = << <<"set", "A">>, <<"get", "A">>, <<"get", "B">> >>
    /\ ret = Null
    /\ stats.misses = 1
    /\ cache = {"A"}
    /\ head = "A"

\* C9: delete(K) of an absent key returns false and changes nothing;
\* delete(K) of a cached key returns true, takes the size down by one and
\* makes a following get(K) return null and a following delete(K) return
\* false without changing anything.
C9_DeleteIdempotent ==
    [][\A k \in AllKeys :
        Delete(k) =>
            IF k \notin cache
            THEN /\ ret' = "false"
                 /\ stats'.size = stats.size
                 /\ this' = this
            ELSE /\ ret' = "true"
                 /\ stats'.size = stats.size - 1
                 /\ cache' = cache \ {k}
                 /\ get(this', k, now').ret = Null
                 /\ delete(this', k).ret = "false"
                 /\ delete(this', k).this = this']_vars

C9_Witness ==
    /\ script = << <<"set", "A">>, <<"delete", "A">>, <<"delete", "A">> >>
    /\ ret = "false"
    /\ cache = {}
    /\ stats.size = 0

\* C10: when exactly H get calls returned a value and exactly M returned
\* null, getStats() reports hits = H and misses = M.
C10_StatsCountGets ==
    /\ getStats(this).hits = returnedValue
    /\ getStats(this).misses = returnedNull

\* the test 'should track cache statistics': set key1, get key1, get key2
C10_Witness ==
    /\ script = << <<"set", "A">>, <<"get", "A">>, <<"get", "B">> >>
    /\ returnedValue = 1
    /\ returnedNull = 1
    /\ getStats(this).hits = 1
    /\ getStats(this).misses = 1
    /\ getStats(this).size = 1

\* C11: after clear() the size is 0, the list has neither head nor tail, the
\* latency window is empty and get returns null for every key that was cached
\* before; capacity and TTL are unchanged; a key absent from the index comes
\* back into it by a set of that key only.
C11_ClearEmpties ==
    [][/\ Clear =>
            /\ getStats(this').size = 0
            /\ cache' = {}
            /\ head' = Undefined
            /\ tail' = Undefined
            /\ responseTimes' = <<>>
            /\ \A k \in cache : get(this', k, now').ret = Null
            /\ capacity' = capacity
            /\ ttl' = ttl
       /\ \A k \in cache' \ cache : \E v \in Values : Set(k, v)]_vars

\* the test 'should clear all entries': set key1, set key2, clear, get key1
C11_Witness ==
    /\ script = << <<"set", "A">>, <<"set", "B">>, <<"clear", "-">>, <<"get", "A">> >>
    /\ capacity = 2
    /\ ttl = 1000
    /\ ret = Null
    /\ stats.size = 0
    /\ stats.misses = 1

\* C12: clear() leaves the hit and miss counters as they are: getStats().hits
\* and getStats().misses are the same right before and right after clear(),
\* for LRUCache and for EnhancedLRUCache.
C12_ClearKeepsCounters ==
    [][/\ (~enhanced.built /\ Clear) =>
            /\ getStats(this').hits = getStats(this).hits
            /\ getStats(this').misses = getStats(this).misses
       /\ EnhancedClear =>
            /\ Enhanced_getStats(enhanced').ret.hits = Enhanced_getStats(enhanced).ret.hits
            /\ Enhanced_getStats(enhanced').ret.misses = Enhanced_getStats(enhanced).ret.misses]_vars

\* set A, a get that hits, a get that misses, then clear: one hit and one miss
\* are still reported by the emptied cache
C12_Witness ==
    /\ script = << <<"set", "A">>, <<"get", "A">>, <<"get", "B">>, <<"clear", "-">> >>
    /\ cache = {}
    /\ getStats(this).hits = 1
    /\ getStats(this).misses = 1
    /\ getStats(this).size = 0

\* the same on the wrapper: an emptied EnhancedLRUCache that reports a hit and a miss
EnhancedClearedWithCounts ==
    /\ enhanced.built
    /\ DOMAIN enhanced.cache = {}
    /\ enhanced.responseTimes = <<>>
    /\ Enhanced_getStats(enhanced).ret.hits = 1
    /\ Enhanced_getStats(enhanced).ret.misses = 1

\* C13: in every reachable state getStats().size equals the number of entries
\* of the index, and is never negative.
C13_SizeIsIndexSize ==
    /\ getStats(this).size = Cardinality(cache)
    /\ getStats(this).size >= 0

\* capacity 1: set A, then set B evicted A
C13_Witness ==
    /\ capacity = 1
    /\ script = << <<"set", "A">>, <<"set", "B">> >>
    /\ cache = {"B"}
    /\ getStats(this).size = 1

Reverse(s) == [i \in 1..Len(s) |-> s[Len(s) + 1 - i]]

\* C14: between operations the nodes reachable from head by next are exactly
\* the nodes of the index, each once; following prev from tail visits them in
\* reverse order; head has no prev and tail no next; head and tail are both
\* empty exactly when the index is empty; no link refers to a node that is
\* absent from the index.
C14_ListMatchesIndex ==
    LET fwd == ListKeys(this)
        bwd == ListKeysBack(this)
    IN  /\ Len(fwd) = Cardinality(cache)
        /\ {fwd[i] : i \in 1..Len(fwd)} = cache
        /\ bwd = Reverse(fwd)
        /\ head # Undefined => node[head].prev = Undefined
        /\ tail # Undefined => node[tail].next = Undefined
        /\ (head = Undefined) <=> (cache = {})
        /\ (tail = Undefined) <=> (cache = {})
        /\ \A k \in AllKeys :
                /\ node[k].prev \in cache \cup {Undefined}
                /\ node[k].next \in cache \cup {Undefined}
        /\ \A k \in AllKeys \ cache : Unlinked(this, k)

\* capacity 3: set A, set B, set C, get A relinked A from the tail to the
\* head, set D evicted B
C14_Witness ==
    /\ script = << <<"set", "A">>, <<"set", "B">>, <<"set", "C">>,
                   <<"get", "A">>, <<"set", "D">> >>
    /\ capacity = 3
    /\ stats.hits = 1
    /\ ListKeys(this) = <<"D", "A", "C">>
    /\ ListKeysBack(this) = <<"C", "A", "D">>
    /\ node["B"] = FreeNode

\* C15: the recency list read from head to tail is the sequence of cached
\* keys ordered by their last touch (a set, or a get that hit), newest first:
\* head is the most recently touched key, tail the least recently touched
\* one, and tail is the entry a set of a new key into the full cache removes.
C15_ListIsTouchOrder ==
    /\ ListKeys(this) = touchOrder
    /\ touchOrder # <<>> =>
            /\ head = touchOrder[1]
            /\ tail = touchOrder[Len(touchOrder)]
    /\ (capacity >= 1 /\ Cardinality(cache) = capacity) =>
            \A k \in FixtureKeys \ cache :
                set(this, k, FixtureValue(k), now).cache = (cache \ {tail}) \cup {k}

\* set A, set B, set C, then a get that hits A: A moved from the tail to the head
C15_Witness ==
    /\ script = << <<"set", "A">>, <<"set", "B">>, <<"set", "C">>, <<"get", "A">> >>
    /\ capacity = 3
    /\ stats.hits = 1
    /\ touchOrder = <<"A", "C", "B">>
    /\ head = "A"
    /\ tail = "B"

\* the index, the recency list and the size counter agree
InStep(C) ==
    /\ Len(ListKeys(C)) = Cardinality(C.cache)
    /\ {ListKeys(C)[i] : i \in 1..Len(ListKeys(C))} = C.cache
    /\ C.stats.size = Cardinality(C.cache)

\* C16: every call and every sweep tick runs to completion without
\* interleaving: whenever a caller may run it finds the index, the recency
\* list and the size in step; between the sweep's scan and
\* its deletions nothing else has run (each key the scan collected is still
\* in the index and still expired), and the deletions leave the cache as
\* cleanupExpired applied in one piece to the scanned state leaves it.
C16_CallsAreAtomic ==
    /\ CallerMayRun => InStep(this)
    /\ sweep.pc # "idle" =>
            \A k \in sweep.expiredKeys :
                k \in cache /\ now - node[k].timestamp > ttl
    /\ (sweep.pc = "delete" /\ sweep.expiredKeys = {}) => sweep.expect = <<this>>

\* a sweep that found A and B expired has unlinked one of them and not yet
\* dropped its Map entry: index and list are out of step, and no caller may run
C16_Witness ==
    /\ sweep.pc = "forget"
    /\ Cardinality(sweep.expiredKeys) = 2
    /\ ~InStep(this)
    /\ ~CallerMayRun

\* C17: after destroy() has returned no timer tick ever runs on that cache
\* again, whatever calls follow (LRUCache and EnhancedLRUCache).
C17_NoTickAfterDestroy ==
    /\ lifecycle # "ticked after destroy"
    /\ lifecycle = "destroyed" => ~cleanupInterval /\ ~enhanced.cleanupInterval

\* set A, destroy, set A again, two seconds pass with a TTL of one: the entry
\* is stale and stays, because no sweep runs any more
C17_Witness ==
    /\ script = << <<"set", "A">>, <<"destroy", "-">>, <<"set", "A">>,
                   <<"tick", "-">>, <<"tick", "-">> >>
    /\ lifecycle = "destroyed"
    /\ ttl = 1000
    /\ "A" \in cache
    /\ now - node["A"].timestamp > ttl

\* a destroyed EnhancedLRUCache that was written to afterwards
EnhancedDestroyedThenSet ==
    /\ enhanced.built
    /\ lifecycle = "destroyed"
    /\ DOMAIN enhanced.cache # {}

\* C18: a cache with capacity <= 0 or with a negative TTL is never built:
\* no instance exists in such a configuration and no timer runs for one.
C18_InvalidConfigurationRefused ==
    /\ capacity >= 1
    /\ ttl >= 0
    /\ cleanupInterval => (capacity >= 1 /\ ttl >= 0)

\* C19: a fault raised by a sweep tick is caught inside the tick: no
\* exception leaves the timer callback, the timer goes on and callers can
\* still use the cache.
C19_SweepFaultContained ==
    /\ ~uncaught
    /\ sweep.pc = "idle" => CallerMayRun

\* C20: set(K, V') on a cached key replaces its value by V', sets its
\* timestamp to the current time, makes it the most recently used entry,
\* leaves the entry count as it is and evicts nothing, even in a full cache;
\* a following get(K) returns V'.
C20_OverwriteInPlace ==
    [][\A k \in cache, v \in Values :
        Set(k, v)
            => /\ node'[k].value = v
               /\ node'[k].timestamp = now
               /\ head' = k
               /\ cache' = cache
               /\ stats'.size = stats.size
               /\ get(this', k, now').ret = v]_vars

\* the overwrite of C20 for the caches built with a TTL that is not negative
OverwriteWithValidTtl ==
    [][\A k \in cache, v \in Values :
        (ttl >= 0 /\ Set(k, v))
            => /\ node'[k].value = v
               /\ node'[k].timestamp = now
               /\ head' = k
               /\ cache' = cache
               /\ stats'.size = stats.size
               /\ get(this', k, now').ret = v]_vars

\* the delays, after a call, at which the modelled clock can be read
Delays == {i * TickMs : i \in 0..MaxTicks}

C26_SameStrictTest ==
    \A k \in cache :
        /\ (now - node[k].timestamp = ttl) =>
              /\ get(this, k, now).ret = node[k].value
              /\ k \in cleanupExpired(this, now).cache
        /\ (get(this, k, now).ret # Null) <=> (k \in cleanupExpired(this, now).cache)
        /\ (now - node[k].timestamp > ttl) => get(this, k, now).ret = Null

\* A, set at 0 with a TTL of one second, was read at 1000 and returned; a
\* sweep at that instant keeps it
C26_Witness ==
    /\ script = << <<"set", "A">>, <<"tick", "-">>, <<"get", "A">> >>
    /\ ttl = TickMs
    /\ now - node["A"].timestamp = ttl
    /\ ret = node["A"].value
    /\ stats.hits = 1
    /\ "A" \in cleanupExpired(this, now).cache

\* C27: every get appends exactly one duration sample, on each of its three
\* paths (key absent, entry expired, hit), in LRUCache and in EnhancedLRUCache.
C27_GetRecordsOneSample ==
    [][/\ \A k \in SweepKeys :
            (~enhanced.built /\ Get(k)) =>
                /\ Len(responseTimes') = Len(responseTimes) + 1
                /\ SubSeq(responseTimes', 1, Len(responseTimes)) = responseTimes
       /\ \A k \in SweepKeys :
            EnhancedGet(k) =>
                /\ Len(enhanced'.responseTimes) = Len(enhanced.responseTimes) + 1
                /\ SubSeq(enhanced'.responseTimes, 1, Len(enhanced.responseTimes))
                       = enhanced.responseTimes]_vars

\* the get that found A expired left one sample
C27_Witness ==
    /\ script = << <<"set", "A">>, <<"tick", "-">>, <<"tick", "-">>, <<"get", "A">> >>
    /\ ttl = TickMs
    /\ ret = Null
    /\ "A" \notin cache
    /\ stats.misses = 1
    /\ Len(responseTimes) = 1

\* C28 as stated: each set call appends one duration sample to the window.
C28_SetRecordsOneSample ==
    [][/\ \A k \in SweepKeys, v \in Values :
            (~enhanced.built /\ Set(k, v)) =>
                Len(responseTimes') = Len(responseTimes) + 1
       /\ \A k \in SweepKeys, v \in Values :
            EnhancedSet(k, v) =>
                Len(enhanced'.responseTimes) = Len(enhanced.responseTimes) + 1]_vars

\* C28: set records no duration, in either class: a set call leaves the
\* window as it was, so averageResponseTime is computed from get calls only.
C28_SetRecordsNothing ==
    [][/\ \A k \in SweepKeys, v \in Values :
            (~enhanced.built /\ Set(k, v)) => responseTimes' = responseTimes
       /\ \A k \in SweepKeys, v \in Values :
            EnhancedSet(k, v) => enhanced'.responseTimes = enhanced.responseTimes]_vars

\* a get and then a set: the window holds the get's sample only
C28_Witness ==
    /\ script = << <<"get", "A">>, <<"set", "A">> >>
    /\ ~enhanced.built
    /\ "A" \in cache
    /\ stats.misses = 1
    /\ Len(responseTimes) = 1

\* C21: a value obtained from get cannot be used to change the cached entry:
\* when the caller mutates an object returned by get(K), or the object it
\* passed to set(K, V), a get(K) still yields the value as it was when set
\* was called; only set changes what a key maps to.
C21_CachedValueIsolated ==
    [][((\E v \in Values : MutateArgument(v)) \/ MutateReturned) =>
          \A k \in cache : Yielded(this', heap', k, now') = Yielded(this, heap, k, now)]_vars

\* the fetches of a user that have been started and have not finished
FetchesInFlight(userId) ==
    {p \in 1..Len(promises) :
        promises[p].userId = userId /\ promises[p].state = "pending"}

\* C22: in GET /users/:id at most one database fetch is in flight per user
\* id; a request that misses the cache while a fetch of the same id is
\* pending awaits that pending fetch instead of starting another.
C22_OneFetchPerUser ==
    /\ \A userId \in UserIds : Cardinality(FetchesInFlight(userId)) <= 1
    /\ \A r \in DOMAIN requests :
          requests[r].pc = "awaiting" =>
              /\ promises[requests[r].userPromise].userId = requests[r].userId
              /\ promises[requests[r].userPromise].state = "pending" =>
                    /\ FetchesInFlight(requests[r].userId) = {requests[r].userPromise}
                    /\ requests[r].userId \in DOMAIN pendingRequests
                    /\ pendingRequests[requests[r].userId] = requests[r].userPromise
    /\ \A userId \in DOMAIN pendingRequests :
          promises[pendingRequests[userId]].userId = userId

\* two requests wait for the one fetch of user 1
C22_Witness ==
    /\ {"r1", "r2"} \subseteq DOMAIN requests
    /\ Len(promises) = 1
    /\ promises[1].state = "pending"
    /\ promises[1].userId = "1"
    /\ requests["r1"].pc = "awaiting"
    /\ requests["r2"].pc = "awaiting"
    /\ requests["r1"].userPromise = 1
    /\ requests["r2"].userPromise = 1
    /\ enhanced.stats.misses = 2

\* C23: on a miss the user is fetched and, when found, stored with cache.set
\* before the response is sent; a user that is not found (the fetch yields
\* null) is never cached and its request ends with 404.
C23_StoredBeforeResponse ==
    /\ \A r \in DOMAIN requests :
          /\ (requests[r].status = 200 /\ requests[r].from = "fetch") =>
                /\ requests[r].cached
                /\ requests[r].user # Null
          /\ requests[r].pc = "respond" =>
                /\ requests[r].userId \in DOMAIN enhanced.cache
                /\ enhanced.cache[requests[r].userId] = requests[r].user
          /\ (requests[r].from = "fetch" /\ requests[r].user = Null) =>
                /\ requests[r].pc = "done"
                /\ requests[r].status = 404
                /\ ~requests[r].cached
          /\ requests[r].cached => requests[r].user = promises[requests[r].userPromise].value
    /\ \A userId \in DOMAIN enhanced.cache : enhanced.cache[userId] # Null

\* user 1 was fetched, cached and sent; user 7 was not found
C23_Witness ==
    /\ {"r1", "r2"} \subseteq DOMAIN requests
    /\ requests["r1"].userId = "1"
    /\ requests["r1"].status = 200
    /\ requests["r1"].from = "fetch"
    /\ requests["r1"].cached
    /\ requests["r2"].userId = "7"
    /\ requests["r2"].status = 404
    /\ "1" \in DOMAIN enhanced.cache
    /\ "7" \notin DOMAIN enhanced.cache

\* no seat id occurs twice in the selection
NoSeatTwice(seats) ==
    \A i, j \in 1..Len(seats) : seats[i] = seats[j] => i = j

LastOf(s, n) == SubSeq(s, IF Len(s) > n THEN Len(s) - n + 1 ELSE 1, Len(s))

\* C29: the latency window never holds more than 100 samples; when a sample
\* is recorded while 100 are held the oldest is dropped and the rest keep
\* their order, so the window is the most recent (at most 100) samples
\* recorded since the last clear().
C29_WindowIsLastHundred ==
    /\ Len(responseTimes) <= ResponseWindow
    /\ responseTimes = LastOf(recorded, ResponseWindow)

\* after a clear, more than 100 gets: the first samples have left the window
C29_Witness ==
    /\ Len(recorded) = ResponseWindow + 2
    /\ stats.misses = ResponseWindow + 3
    /\ Len(responseTimes) = ResponseWindow
    /\ responseTimes[1] = recorded[3]
    /\ responseTimes[1] # recorded[1]
    /\ responseTimes[ResponseWindow] = recorded[ResponseWindow + 2]

\* C30: getStats().averageResponseTime is 0 when the window is empty and
\* otherwise the arithmetic mean of the samples in the window rounded to two
\* decimals (the hundredth nearest to the mean); getStats changes no state of
\* LRUCache.
C30_AverageIsRoundedMean ==
    [][/\ LET average == getStats(this').averageResponseTime
              n == Len(responseTimes')
              sum == Sum(responseTimes')
          IN  /\ n = 0 => average = 0
              /\ n > 0 => /\ 2 * (average * n - 100 * sum) <= n
                          /\ 2 * (100 * sum - average * n) <= n
       /\ GetStats => UNCHANGED <<capacity, ttl, cache, node, head, tail, stats,
                                  responseTimes, cleanupInterval>>]_vars

\* getStats was called with 40 samples of sum 41 in the window: the mean is
\* 1.025 and the answer 1.02
C30_Witness ==
    /\ ret = "stats"
    /\ Len(responseTimes) = 40
    /\ Sum(responseTimes) = 41
    /\ getStats(this).averageResponseTime = 102

\* C31: after destroy() the cache holds no entries: the size is 0, the list
\* has neither head nor tail and the latency window is empty; a second
\* destroy() finds the timer cleared and the cache empty, and leaves both as
\* they are.
C31_DestroyReleasesAll ==
    [][Destroy =>
            /\ cache' = {}
            /\ getStats(this').size = 0
            /\ head' = Undefined
            /\ tail' = Undefined
            /\ responseTimes' = <<>>
            /\ ~cleanupInterval'
            /\ clear(this') = this'
            /\ (lifecycle = "destroyed" /\ cache = {} /\ responseTimes = <<>>) =>
                    /\ this' = this
                    /\ cleanupInterval' = cleanupInterval]_vars

\* set A, a get that hits, destroy, destroy again: the second call found
\* nothing to release
C31_Witness ==
    /\ script = << <<"set", "A">>, <<"get", "A">>, <<"destroy", "-">>, <<"destroy", "-">> >>
    /\ lifecycle = "destroyed"
    /\ cache = {}
    /\ responseTimes = <<>>
    /\ stats.hits = 1
    /\ ~cleanupInterval

\* the finally callback of a settled fetch of userId is queued and has not run yet
CleanupQueued(userId) ==
    \E i \in 1..Len(microtasks) : microtasks[i] = <<"finally", userId>>

\* C37: every entry of pendingRequests belongs to a fetch that has not
\* settled, or to one that settled (with a user, with null or by rejecting)
\* and whose finally callback is still in the microtask queue: by the time
\* the event loop takes the next request the entry is gone.  When no GET
\* /users/:id request is in flight pendingRequests is empty, so the next miss
\* finds no pending promise for its id.
C37_PendingEntriesRemoved ==
    /\ \A userId \in DOMAIN pendingRequests :
          \/ promises[pendingRequests[userId]].state = "pending"
          \/ CleanupQueued(userId)
    /\ microtasks = <<>> =>
          \A userId \in DOMAIN pendingRequests :
              promises[pendingRequests[userId]].state = "pending"
    /\ (\A r \in DOMAIN requests : requests[r].pc = "done") =>
          /\ DOMAIN pendingRequests = {}
          /\ \A p \in 1..Len(promises) : promises[p].state # "pending"

\* three fetches have settled, one with a user, one with null and one by
\* rejecting; every request is answered and the Map is empty
C37_Witness ==
    /\ DOMAIN requests = Requests
    /\ \A r \in Requests : requests[r].pc = "done"
    /\ Len(promises) = 3
    /\ \E p \in 1..3 : promises[p].state = "rejected"
    /\ \E p \in 1..3 : promises[p].state = "resolved" /\ promises[p].value = Null
    /\ \E p \in 1..3 : promises[p].state = "resolved" /\ promises[p].value = "John Doe"
    /\ DOMAIN pendingRequests = {}
    /\ microtasks = <<>>

\* C32: in POST /users the cache gets the new user only from a request whose
\* create job has finished, and gets exactly that request's newUser under its
\* id; a request that ends because queuing the job or the job itself failed
\* has not written to the cache, neither in the step that fails nor before.
C32_CachedAfterCreate ==
    [][/\ \A k \in DOMAIN enhanced'.cache :
              (k \notin DOMAIN enhanced.cache \/ enhanced'.cache[k] # enhanced.cache[k]) =>
                  \E r \in DOMAIN posts :
                      /\ posts[r].pc = "waiting"
                      /\ posts[r].job = "completed"
                      /\ posts'[r].status = 201
                      /\ posts[r].newUser.id = k
                      /\ enhanced'.cache[k] = posts[r].newUser
       /\ \A r \in PostRequests :
              (PostQueueFails(r) \/ PostWaitFails(r)) =>
                  /\ enhanced' = enhanced
                  /\ ~posts[r].cached
                  /\ ~posts'[r].cached
       /\ \A r \in DOMAIN posts' :
              posts'[r].cached => posts'[r].job = "completed"]_vars

\* p1 created user 7 and cached it, trimmed and in lower case; p2 failed at
\* the job and left the cache alone
C32_Witness ==
    /\ DOMAIN posts = PostRequests
    /\ posts["p1"].status = 201
    /\ posts["p1"].cached
    /\ posts["p1"].job = "completed"
    /\ posts["p2"].status = 500
    /\ posts["p2"].job = "failed"
    /\ posts["p2"].newUser.id = "8"
    /\ DOMAIN enhanced.cache = {"7"}
    /\ enhanced.cache["7"].name = <<"A", "n", "n">>
    /\ enhanced.cache["7"].email = <<"a", "n", "n", "@", "b", ".", "c">>

\* C33: whatever the cache holds when DELETE /cache arrives, the response
\* reports as entriesRemoved the number of entries the cache holds at that
\* moment and as currentSize 0, and the handler leaves the cache empty.
C33_ClearReportsCount ==
    /\ deleteCache(enhanced).ret.entriesRemoved = Cardinality(DOMAIN enhanced.cache)
    /\ deleteCache(enhanced).ret.currentSize = 0
    /\ DOMAIN deleteCache(enhanced).this.cache = {}
    /\ response # NoResponse =>
          /\ response.currentSize = 0
          /\ response.entriesRemoved \in 0..enhanced.max

\* two users were created and cached, then DELETE /cache answered: two
\* entries removed, none left
C33_Witness ==
    /\ response.message = "Cache cleared successfully"
    /\ response.entriesRemoved = 2
    /\ response.currentSize = 0
    /\ DOMAIN enhanced.cache = {}
    /\ enhanced.stats.size = 0
    /\ \A r \in PostRequests : r \in DOMAIN posts /\ posts[r].cached

\* C34: a sweep tick at the current time removes the entries whose age
\* exceeds the TTL and nothing else: every other entry keeps its value and
\* its timestamp, the survivors keep their order in the recency list, and
\* hits, misses, the latency window, capacity and TTL are as before.
C34_SweepTouchesOnlyExpired ==
    LET swept == cleanupExpired(this, now)
        expired == {k \in cache : now - node[k].timestamp > ttl}
    IN  /\ swept.cache = cache \ expired
        /\ \A k \in swept.cache :
              /\ swept.node[k].value = node[k].value
              /\ swept.node[k].timestamp = node[k].timestamp
        /\ ListKeys(swept) = Keep(ListKeys(this), swept.cache)
        /\ ListKeysBack(swept) = Reverse(ListKeys(swept))
        /\ swept.stats.hits = stats.hits
        /\ swept.stats.misses = stats.misses
        /\ swept.responseTimes = responseTimes
        /\ swept.capacity = capacity
        /\ swept.ttl = ttl

\* A was set at 0 and read at 1 s, B and C were set at 1 s: at 2 s the tick
\* removed A from the middle of the list C, A, B; the hit and its sample stay
C34_Witness ==
    /\ script = << <<"set", "A">>, <<"tick", "-">>, <<"set", "B">>, <<"get", "A">>,
                   <<"set", "C">>, <<"tick", "-">>, <<"cleanup", "-">> >>
    /\ cache = {"B", "C"}
    /\ ListKeys(this) = <<"C", "B">>
    /\ node["B"].timestamp = 1000
    /\ node["C"].value = FixtureValue("C")
    /\ stats.hits = 1
    /\ stats.misses = 0
    /\ Len(responseTimes) = 1

\* one of the two counters of S went up by one in this step, the other stayed
CountedOnce(S, S1) ==
    \/ S1.hits = S.hits + 1 /\ S1.misses = S.misses
    \/ S1.hits = S.hits /\ S1.misses = S.misses + 1

\* C35: hits + misses is the number of get calls made since construction:
\* every get adds one to exactly one of the two counters, and no other call
\* (set, delete, clear, getStats, destroy) and no timer tick changes either
\* counter, on LRUCache and on EnhancedLRUCache.
C35_CountersCountGets ==
    [][/\ ~enhanced.built =>
            /\ stats'.hits + stats'.misses = returnedValue' + returnedNull'
            /\ getStats(this').hits + getStats(this').misses = stats'.hits + stats'.misses
            /\ IF \E k \in SweepKeys : Get(k)
               THEN CountedOnce(stats, stats')
               ELSE stats'.hits = stats.hits /\ stats'.misses = stats.misses
       /\ enhanced.built =>
            IF \E k \in SweepKeys : EnhancedGet(k)
            THEN CountedOnce(enhanced.stats, enhanced'.stats)
            ELSE /\ enhanced'.stats.hits = enhanced.stats.hits
                 /\ enhanced'.stats.misses = enhanced.stats.misses]_vars

\* set A, a get that hit, a get that missed, then clear: two gets, one hit and
\* one miss, still counted by the emptied cache
C35_Witness ==
    /\ script = << <<"set", "A">>, <<"get", "A">>, <<"get", "B">>, <<"clear", "-">> >>
    /\ ~enhanced.built
    /\ stats.hits + stats.misses = 2
    /\ returnedValue + returnedNull = 2
    /\ stats.hits = 1
    /\ cache = {}

\* C36: delete(K) of a cached key returns true and removes K only: every
\* other entry stays with its value and its timestamp, the other keys keep
\* their order in the recency list (read from head and from tail), whether K
\* is the head, the tail, a middle node or the only node; hits, misses and
\* the latency window are as before.
C36_DeleteRemovesOnlyKey ==
    \A k \in cache :
        LET after == delete(this, k).this
        IN  /\ delete(this, k).ret = "true"
            /\ after.cache = cache \ {k}
            /\ \A j \in after.cache :
                  /\ after.node[j].value = node[j].value
                  /\ after.node[j].timestamp = node[j].timestamp
            /\ ListKeys(after) = Without(ListKeys(this), k)
            /\ ListKeysBack(after) = Reverse(ListKeys(after))
            /\ (cache = {k}) => (after.head = Undefined /\ after.tail = Undefined)
            /\ after.stats.hits = stats.hits
            /\ after.stats.misses = stats.misses
            /\ after.responseTimes = responseTimes

\* set A, set B, set C, delete B: the middle node is gone, C is still the
\* head and A the tail
C36_Witness ==
    /\ script = << <<"set", "A">>, <<"set", "B">>, <<"set", "C">>, <<"delete", "B">> >>
    /\ ret = "true"
    /\ cache = {"A", "C"}
    /\ ListKeys(this) = <<"C", "A">>
    /\ ListKeysBack(this) = <<"A", "C">>
    /\ node["A"].value = FixtureValue("A")
    /\ node["C"].value = FixtureValue("C")

\* C38: the timer tick of EnhancedLRUCache copies the current number of
\* entries into stats.size and does nothing else: the entries and their
\* values, hits, misses and the latency window are the same after the tick.
C38_TimerOnlyCopiesSize ==
    [][EnhancedTimerTick =>
            /\ enhanced'.cache = enhanced.cache
            /\ enhanced'.stats.size = Cardinality(DOMAIN enhanced.cache)
            /\ enhanced'.stats.hits = enhanced.stats.hits
            /\ enhanced'.stats.misses = enhanced.stats.misses
            /\ enhanced'.responseTimes = enhanced.responseTimes
            /\ enhanced'.max = enhanced.max
            /\ enhanced'.cleanupInterval = enhanced.cleanupInterval]_vars

\* nobody has asked for statistics: the size of 2 was written by a tick,
\* which found two entries and left them, the hit, the miss and both samples
C38_Witness ==
    /\ enhanced.built
    /\ enhanced.stats.size = 2
    /\ DOMAIN enhanced.cache = SweepKeys
    /\ enhanced.stats.hits = 1
    /\ enhanced.stats.misses = 1
    /\ Len(enhanced.responseTimes) = 2

====
